---- MODULE Spec2Model ----
(***************************************************************************)
(* Model of the Jira MCP server: the boundary tools of src/main.py, the    *)
(* operation functions of src/tools/tool_utils.py and the command executor *)
(* of src/tools/jira_executor.py.  One tool invocation runs at a time: it  *)
(* enters its operation function, which issues executor calls one after    *)
(* the other; the external jira-cli process is the environment and answers *)
(* each call with an exit, a missing binary or a timeout.                  *)
(*                                                                         *)
(* Python values: a string is a TLA+ string, a list a sequence, an         *)
(* optional value (x | None) the empty tuple for None and <<x>> otherwise, *)
(* a pydantic model a record.                                              *)
(***************************************************************************)
EXTENDS Integers, Sequences, FiniteSets, TLC

VARIABLES
    JIRA_CLI_PATH,  \* the environment variable read by get_jira_cli_path
    pc,             \* "idle" | "exec" (an executor call is pending) | "done"
    req,            \* the tool invocation: [tool, params]
    invoked,        \* how many times the operation function was entered
    locals,         \* the operation function's locals kept across a call
    calls,          \* the executor calls issued so far: [args, stdin]
    resps,          \* what subprocess.run did for each completed call
    outcome,        \* None, or <<what the operation function did>>
    toolOut         \* None, or <<the string the boundary tool returned>>

vars == <<JIRA_CLI_PATH, pc, req, invoked, locals, calls, resps, outcome, toolOut>>

-----------------------------------------------------------------------------
(* Bounds of the model. *)

\* Longest list given for a list-valued parameter (labels, components, ...).
MaxListLen == 2

\* Most blocks of a document that is built from several blocks.
MaxBlocks == 2

-----------------------------------------------------------------------------
(* Python values and built-ins. *)

None == <<>>
Some(v) == <<v>>

\* "if s:" for s: str | None.
TruthyStr(o) == o # None /\ o[1] # ""
\* "if b:" for b: bool | None.
TruthyBool(o) == o # None /\ o[1]
\* "if xs:" for xs: list | None.
TruthyList(o) == o # None /\ Len(o[1]) > 0

RECURSIVE Join(_, _)
\* sep.join(parts)
Join(parts, sep) ==
    IF Len(parts) = 0 THEN ""
    ELSE IF Len(parts) = 1 THEN parts[1]
    ELSE parts[1] \o sep \o Join(Tail(parts), sep)

\* sub in s
Contains(s, sub) ==
    \E i \in 0..(Len(s) - Len(sub)) : SubSeq(s, i + 1, i + Len(sub)) = sub

StartsWith(s, p) == Len(s) >= Len(p) /\ SubSeq(s, 1, Len(p)) = p

IsSpace(c) == c \in {" ", "\t", "\n"}

RECURSIVE LStrip(_)
LStrip(s) ==
    IF Len(s) > 0 /\ IsSpace(SubSeq(s, 1, 1)) THEN LStrip(SubSeq(s, 2, Len(s))) ELSE s

RECURSIVE RStrip(_)
RStrip(s) ==
    IF Len(s) > 0 /\ IsSpace(SubSeq(s, Len(s), Len(s)))
    THEN RStrip(SubSeq(s, 1, Len(s) - 1)) ELSE s

\* s.strip()
strip(s) == LStrip(RStrip(s))

RECURSIVE FindFrom(_, _, _)
\* The position of the first character c in s from position i on, 0 when there is none.
FindFrom(s, c, i) ==
    IF i > Len(s) THEN 0
    ELSE IF SubSeq(s, i, i) = c THEN i
    ELSE FindFrom(s, c, i + 1)

RECURSIVE SplitAt(_, _, _, _)
\* The pieces of s from position start on, the scan being at position i.
SplitAt(s, sep, start, i) ==
    IF i > Len(s) THEN <<SubSeq(s, start, Len(s))>>
    ELSE IF SubSeq(s, i, i) = sep
    THEN <<SubSeq(s, start, i - 1)>> \o SplitAt(s, sep, i + 1, i + 1)
    ELSE SplitAt(s, sep, start, i + 1)

\* s.split(sep), sep one character
split(s, sep) == SplitAt(s, sep, 1, 1)

LowerChar(c) ==
    LET i == FindFrom("ABCDEFGHIJKLMNOPQRSTUVWXYZ", c, 1)
    IN  IF i = 0 THEN c ELSE SubSeq("abcdefghijklmnopqrstuvwxyz", i, i)

RECURSIVE lower(_)
\* s.lower()
lower(s) ==
    IF Len(s) = 0 THEN "" ELSE LowerChar(SubSeq(s, 1, 1)) \o lower(SubSeq(s, 2, Len(s)))

Digit(d) == SubSeq("0123456789", d + 1, d + 1)

RECURSIVE str_int(_)
\* str(n), n an int
str_int(n) ==
    IF n < 0 THEN "-" \o str_int(-n)
    ELSE IF n < 10 THEN Digit(n)
    ELSE str_int(n \div 10) \o Digit(n % 10)

RECURSIVE ReprItems(_)
ReprItems(xs) ==
    IF Len(xs) = 0 THEN <<>> ELSE <<"'" \o xs[1] \o "'">> \o ReprItems(Tail(xs))

\* str(xs), xs a list of strings holding no quote, backslash or control character
str_list(xs) == "[" \o Join(ReprItems(xs), ", ") \o "]"

\* What a function did: it returned a value, or raised an exception e; msg is str(e).
Return(v) == [kind |-> "return", value |-> v]
Raise(exc, msg) == [kind |-> "raise", exc |-> exc, msg |-> msg]

-----------------------------------------------------------------------------
(* src/tools/jira_executor.py *)

\* subprocess.run's timeout, in seconds.
TIMEOUT == 20

CommandResult(stdout, stderr, exit_code) ==
    [stdout |-> stdout, stderr |-> stderr, exit_code |-> exit_code]

get_jira_cli_path == IF JIRA_CLI_PATH = None THEN "jira" ELSE JIRA_CLI_PATH[1]

\* What subprocess.run did: the process exited, the binary was not found, or the
\* timeout ran out.
Exited(stdout, stderr, returncode) ==
    [kind |-> "exited", stdout |-> stdout, stderr |-> stderr, returncode |-> returncode]
FileNotFound == [kind |-> "FileNotFoundError", stdout |-> "", stderr |-> "", returncode |-> 0]
TimedOut == [kind |-> "TimeoutExpired", stdout |-> "", stderr |-> "", returncode |-> 0]

\* execute_jira_command(args, stdin_input), given what subprocess.run did.
execute_jira_command(args, proc) ==
    LET jira_path == get_jira_cli_path
        command == <<jira_path>> \o args
    IN  IF proc.kind = "FileNotFoundError"
        THEN Raise("FileNotFoundError",
                   "jira-cli not found at path: " \o jira_path \o ". "
                   \o "Please install jira-cli or set JIRA_CLI_PATH environment variable.")
        ELSE IF proc.kind = "TimeoutExpired"
        THEN Raise("TimeoutExpired",
                   "Command '" \o str_list(command) \o "' timed out after "
                   \o str_int(TIMEOUT) \o " seconds")
        ELSE Return(CommandResult(proc.stdout, proc.stderr, proc.returncode))

-----------------------------------------------------------------------------
(* src/models/jira_tickets.py *)

COMMON_STATUS_MAP ==
    ("open" :> "Open") @@ ("in progress" :> "In Progress") @@ ("in review" :> "In Review")
    @@ ("done" :> "Done") @@ ("closed" :> "Closed") @@ ("canceled" :> "Canceled")
    @@ ("todo" :> "To Do") @@ ("to do" :> "To Do") @@ ("backlog" :> "Backlog")
    @@ ("blocked" :> "Blocked") @@ ("ready for review" :> "Ready for Review")
    @@ ("ready for qa" :> "Ready for QA") @@ ("in qa" :> "In QA")
    @@ ("deployed" :> "Deployed")

\* A normalize_status that takes "todo" to the key "to do", not to its display name.
normalize_status_via_alias(status) ==
    IF lower(status) = "todo" THEN "to do"
    ELSE IF lower(status) \in DOMAIN COMMON_STATUS_MAP THEN COMMON_STATUS_MAP[lower(status)]
    ELSE status

\* A normalizer that looks the status up as it is given.
normalize_status_as_given(status) ==
    IF status \in DOMAIN COMMON_STATUS_MAP THEN COMMON_STATUS_MAP[status] ELSE status

normalize_status(status) ==
    IF lower(status) \in DOMAIN COMMON_STATUS_MAP
    THEN COMMON_STATUS_MAP[lower(status)]
    ELSE status

JiraTicket(key, summary, status, priority, type, assignee) ==
    [key |-> key, summary |-> summary, status |-> status, priority |-> priority,
     type |-> type, assignee |-> assignee, reporter |-> None, created |-> None,
     updated |-> None, description |-> None]

-----------------------------------------------------------------------------
(* src/tools/tool_utils.py: the query builder and list_tickets *)

\* A builder that treats the raw query as one more clause.
_build_jql_from_params_appending(jql, assigned_to_me, unassigned, status, project, created_recently, updated_recently) ==
    LET conditions ==
          (IF TruthyStr(jql) THEN jql ELSE <<>>)
          \o (IF TruthyBool(assigned_to_me) THEN <<"assignee = currentUser()">>
              ELSE IF TruthyBool(unassigned) THEN <<"assignee is EMPTY">>
              ELSE <<>>)
          \o (IF TruthyStr(status)
              THEN <<"status = \"" \o normalize_status(status[1]) \o "\"">>
              ELSE <<>>)
          \o (IF TruthyStr(project) THEN <<"project = " \o project[1]>> ELSE <<>>)
          \o (IF TruthyBool(created_recently) THEN <<"created >= -7d">> ELSE <<>>)
          \o (IF TruthyBool(updated_recently) THEN <<"updated >= -7d">> ELSE <<>>)
    IN  IF Len(conditions) > 0 THEN Some(Join(conditions, " AND ")) ELSE None

\* A builder that puts the project clause before the status clause.
_build_jql_from_params_project_first(jql, assigned_to_me, unassigned, status, project, created_recently, updated_recently) ==
    IF TruthyStr(jql) THEN jql
    ELSE
      LET conditions ==
            (IF TruthyBool(assigned_to_me) THEN <<"assignee = currentUser()">>
             ELSE IF TruthyBool(unassigned) THEN <<"assignee is EMPTY">>
             ELSE <<>>)
            \o (IF TruthyStr(project) THEN <<"project = " \o project[1]>> ELSE <<>>)
            \o (IF TruthyStr(status)
                THEN <<"status = \"" \o normalize_status(status[1]) \o "\"">>
                ELSE <<>>)
            \o (IF TruthyBool(created_recently) THEN <<"created >= -7d">> ELSE <<>>)
            \o (IF TruthyBool(updated_recently) THEN <<"updated >= -7d">> ELSE <<>>)
      IN  IF Len(conditions) > 0 THEN Some(Join(conditions, " AND ")) ELSE None

\* A builder whose two assignee tests are independent ("if" and "if", not "elif").
_build_jql_from_params_both_assignee(jql, assigned_to_me, unassigned, status, project, created_recently, updated_recently) ==
    IF TruthyStr(jql) THEN jql
    ELSE
      LET conditions ==
            (IF TruthyBool(assigned_to_me) THEN <<"assignee = currentUser()">> ELSE <<>>)
            \o (IF TruthyBool(unassigned) THEN <<"assignee is EMPTY">> ELSE <<>>)
            \o (IF TruthyStr(status)
                THEN <<"status = \"" \o normalize_status(status[1]) \o "\"">>
                ELSE <<>>)
            \o (IF TruthyStr(project) THEN <<"project = " \o project[1]>> ELSE <<>>)
            \o (IF TruthyBool(created_recently) THEN <<"created >= -7d">> ELSE <<>>)
            \o (IF TruthyBool(updated_recently) THEN <<"updated >= -7d">> ELSE <<>>)
      IN  IF Len(conditions) > 0 THEN Some(Join(conditions, " AND ")) ELSE None

_build_jql_from_params(jql, assigned_to_me, unassigned, status, project, created_recently, updated_recently) ==
    IF TruthyStr(jql) THEN jql
    ELSE
      LET conditions ==
            (IF TruthyBool(assigned_to_me) THEN <<"assignee = currentUser()">>
             ELSE IF TruthyBool(unassigned) THEN <<"assignee is EMPTY">>
             ELSE <<>>)
            \o (IF TruthyStr(status)
                THEN <<"status = \"" \o normalize_status(status[1]) \o "\"">>
                ELSE <<>>)
            \o (IF TruthyStr(project) THEN <<"project = " \o project[1]>> ELSE <<>>)
            \o (IF TruthyBool(created_recently) THEN <<"created >= -7d">> ELSE <<>>)
            \o (IF TruthyBool(updated_recently) THEN <<"updated >= -7d">> ELSE <<>>)
      IN  IF Len(conditions) > 0 THEN Some(Join(conditions, " AND ")) ELSE None

\* An argument list that always carries the "--jql" flag.
list_tickets_args_always_jql(p, built_jql) ==
    <<"issue", "list", "--no-headers", "--plain", "--columns",
      "key,summary,status,priority,type,assignee">>
    \o <<"--jql", IF built_jql # None THEN built_jql[1] ELSE "">>
    \o (IF TruthyStr(p.order_by)
        THEN <<"--order-by", p.order_by[1]>>
             \o (IF p.order_direction = Some("asc") THEN <<"--reverse">> ELSE <<>>)
        ELSE <<>>)
    \o (IF p.limit > 0 THEN <<"--paginate", "0:" \o str_int(p.limit)>> ELSE <<>>)

\* The argument list list_tickets hands to the executor.
list_tickets_args(p, built_jql) ==
    <<"issue", "list", "--no-headers", "--plain", "--columns",
      "key,summary,status,priority,type,assignee">>
    \o (IF TruthyStr(built_jql) THEN <<"--jql", built_jql[1]>> ELSE <<>>)
    \o (IF TruthyStr(p.order_by)
        THEN <<"--order-by", p.order_by[1]>>
             \o (IF p.order_direction = Some("asc") THEN <<"--reverse">> ELSE <<>>)
        ELSE <<>>)
    \o (IF p.limit > 0 THEN <<"--paginate", "0:" \o str_int(p.limit)>> ELSE <<>>)

RECURSIVE NonBlank(_)
\* [x for x in xs if x.strip()]
NonBlank(xs) ==
    IF Len(xs) = 0 THEN <<>>
    ELSE (IF strip(xs[1]) # "" THEN <<xs[1]>> ELSE <<>>) \o NonBlank(Tail(xs))

RECURSIVE StripAll(_)
\* [x.strip() for x in xs]
StripAll(xs) == IF Len(xs) = 0 THEN <<>> ELSE <<strip(xs[1])>> \o StripAll(Tail(xs))

\* lines = [line for line in stdout.strip().split("\n") if line.strip()]
OutputLines(stdout) == NonBlank(split(strip(stdout), "\n"))

\* Columns that keep the empty cells between two tabs.
Columns_keeping_empty(line) == StripAll(split(line, "\t"))

\* columns = [col.strip() for col in line.split("\t") if col.strip()]
Columns(line) == StripAll(NonBlank(split(line, "\t")))

RECURSIVE TicketRows(_)
TicketRows(lines) ==
    IF Len(lines) = 0 THEN <<>>
    ELSE LET columns == Columns(lines[1])
         IN  (IF Len(columns) >= 5
              THEN <<JiraTicket(columns[1], columns[2], columns[3], columns[4], columns[5],
                                IF Len(columns) > 5 THEN Some(columns[6]) ELSE None)>>
              ELSE <<>>)
             \o TicketRows(Tail(lines))

\* A list_tickets that takes only the exact stderr "No result found" for no result.
list_tickets_result_exact_stderr(ex) ==
    IF ex.kind = "raise" THEN ex
    ELSE LET result == ex.value
         IN  IF result.exit_code # 0
             THEN IF result.stderr = "No result found"
                  THEN Return(<<>>)
                  ELSE Raise("ValueError", "Failed to list tickets: " \o result.stderr)
             ELSE Return(TicketRows(OutputLines(result.stdout)))

\* list_tickets after its executor call: ex is what execute_jira_command did.
list_tickets_result(ex) ==
    IF ex.kind = "raise" THEN ex
    ELSE LET result == ex.value
         IN  IF result.exit_code # 0
             THEN IF Contains(result.stderr, "No result found")
                  THEN Return(<<>>)
                  ELSE Raise("ValueError", "Failed to list tickets: " \o result.stderr)
             ELSE Return(TicketRows(OutputLines(result.stdout)))

-----------------------------------------------------------------------------
(* json.loads and the JSON values it yields: a dict is [t |-> "dict", d |-> a
   function from its keys], a list [t |-> "list", l |-> a sequence], a string
   [t |-> "str", s |-> the string], an int [t |-> "int", n |-> ...], null
   [t |-> "NoneType"]. *)

JDict(d) == [t |-> "dict", d |-> d]
JList(l) == [t |-> "list", l |-> l]
JStr(s) == [t |-> "str", s |-> s]
JInt(n) == [t |-> "int", n |-> n]
JNull == [t |-> "NoneType"]

\* d.get(k, default), d a dict
DictGet(d, k, default) == IF k \in DOMAIN d.d THEN d.d[k] ELSE default

\* x.get(...) where x is not a dict
NoGet(x) == Raise("AttributeError", "'" \o x.t \o "' object has no attribute 'get'")

-----------------------------------------------------------------------------
(* src/tools/tool_utils.py: the operations on one ticket *)

RECURSIVE Flagged(_, _)
\* for x in xs: args.extend([flag, x])
Flagged(flag, xs) ==
    IF Len(xs) = 0 THEN <<>> ELSE <<flag, xs[1]>> \o Flagged(flag, Tail(xs))

CreateTicketResult(success, ticket_key, ticket_url, error) ==
    [success |-> success, ticket_key |-> ticket_key, ticket_url |-> ticket_url,
     error |-> error]

create_ticket_args(p) ==
    <<"issue", "create", "--project", p.project, "--type", p.issue_type,
      "--summary", p.summary, "--no-input", "--raw">>
    \o (IF TruthyStr(p.priority) THEN <<"--priority", p.priority[1]>> ELSE <<>>)
    \o (IF TruthyStr(p.assignee) THEN <<"--assignee", p.assignee[1]>> ELSE <<>>)
    \o (IF TruthyList(p.labels) THEN Flagged("--label", p.labels[1]) ELSE <<>>)
    \o (IF TruthyList(p.components) THEN Flagged("--component", p.components[1]) ELSE <<>>)
    \o (IF TruthyStr(p.description) THEN <<"--template", "-">> ELSE <<>>)

create_ticket_stdin(p) == IF TruthyStr(p.description) THEN p.description ELSE None

\* A try block that raises on a non-zero exit, as the other operations do.
create_ticket_try_raising(ex, parsed) ==
    IF ex.kind = "raise" THEN ex
    ELSE LET result == ex.value
         IN  IF result.exit_code # 0
             THEN Raise("ValueError", "Failed to create ticket: " \o result.stderr)
             ELSE IF parsed.kind = "raise" THEN parsed
             ELSE IF parsed.value.t # "dict" THEN NoGet(parsed.value)
             ELSE Return(CreateTicketResult(TRUE,
                            Some(DictGet(parsed.value, "key", JStr("")).s),
                            Some(DictGet(parsed.value, "self", JStr("")).s), None))

\* The body of create_ticket's try block after the executor call; parsed is what
\* json.loads did with stdout.
create_ticket_try(ex, parsed) ==
    IF ex.kind = "raise" THEN ex
    ELSE LET result == ex.value
         IN  IF result.exit_code # 0
             THEN Return(CreateTicketResult(FALSE, None, None,
                            Some(IF result.stderr # "" THEN result.stderr
                                 ELSE "Failed to create ticket")))
             ELSE IF parsed.kind = "raise" THEN parsed
             ELSE IF parsed.value.t # "dict" THEN NoGet(parsed.value)
             ELSE Return(CreateTicketResult(TRUE,
                            Some(DictGet(parsed.value, "key", JStr("")).s),
                            Some(DictGet(parsed.value, "self", JStr("")).s), None))

\* A create_ticket without the "except Exception" clause.
create_ticket_result_propagating(ex, parsed) == create_ticket_try(ex, parsed)

\* create_ticket after its executor call: "except Exception" turns whatever the
\* try block raised into a failure result.
create_ticket_result(ex, parsed) ==
    LET tried == create_ticket_try(ex, parsed)
    IN  IF tried.kind = "raise"
        THEN Return(CreateTicketResult(FALSE, None, None,
                       Some("Failed to create ticket: " \o tried.msg)))
        ELSE tried

MoveTicketResult(ticket_key, previous_status, new_status) ==
    [success |-> TRUE, ticket_key |-> ticket_key, previous_status |-> previous_status,
     new_status |-> new_status,
     message |-> "Successfully moved " \o ticket_key \o " from " \o previous_status
                 \o " to " \o new_status]

move_ticket_view_args(ticket_key) ==
    <<"issue", "list", "--jql", "key = " \o ticket_key, "--plain", "--no-headers",
      "--columns", "status">>

move_ticket_move_args(ticket_key, target_status) ==
    <<"issue", "move", ticket_key, target_status>>

\* A reading of the lookup's stdout that always takes the first column.
current_status_of_first_column(stdout) ==
    LET output_parts == split(strip(stdout), "\t")
        current_status == output_parts[1]
    IN  IF current_status # "" THEN strip(current_status) ELSE "Unknown"

\* move_ticket's reading of the lookup's stdout.
current_status_of(stdout) ==
    LET output_parts == split(strip(stdout), "\t")
        current_status == IF Len(output_parts) > 1 THEN output_parts[2]
                          ELSE output_parts[1]
    IN  IF current_status # "" THEN strip(current_status) ELSE "Unknown"

\* A move_ticket that reads the lookup's stdout whatever its exit code.
move_ticket_viewed_any_exit(ticket_key, ex) ==
    IF ex.kind = "raise" THEN ex ELSE Return(current_status_of(ex.value.stdout))

\* move_ticket after the status lookup: it raises, or goes on (Return(current status)).
move_ticket_viewed(ticket_key, ex) ==
    IF ex.kind = "raise" THEN ex
    ELSE IF ex.value.exit_code # 0
    THEN Raise("ValueError", "Failed to get current status for " \o ticket_key \o ": "
                             \o ex.value.stderr)
    ELSE Return(current_status_of(ex.value.stdout))

\* move_ticket after the transition command.
move_ticket_result(ticket_key, current_status, target_status, ex) ==
    IF ex.kind = "raise" THEN ex
    ELSE IF ex.value.exit_code # 0
    THEN Raise("ValueError", "Failed to move ticket " \o ticket_key \o ": "
                             \o ex.value.stderr)
    ELSE Return(MoveTicketResult(ticket_key, current_status, target_status))

\* AddCommentResult, UpdateDescriptionResult, RemoveFromSprintResult
TicketMessage(ticket_key, message) ==
    [success |-> TRUE, ticket_key |-> ticket_key, message |-> message]

add_comment_args(ticket_key) == <<"issue", "comment", "add", ticket_key, "--no-input">>

add_comment_result(ticket_key, ex) ==
    IF ex.kind = "raise" THEN ex
    ELSE IF ex.value.exit_code # 0
    THEN Raise("ValueError", "Failed to add comment to " \o ticket_key \o ": "
                             \o ex.value.stderr)
    ELSE Return(TicketMessage(ticket_key, "Successfully added comment to " \o ticket_key))

AssignToMeResult(ticket_key, assignee) ==
    [success |-> TRUE, ticket_key |-> ticket_key, assignee |-> assignee,
     message |-> "Successfully assigned " \o ticket_key \o " to " \o assignee]

assign_to_me_assign_args(ticket_key, current_user) ==
    <<"issue", "assign", ticket_key, current_user>>

\* An assign_to_me that goes on with whatever the "me" call printed.
assign_to_me_resolved_unchecked(ex) ==
    IF ex.kind = "raise" THEN ex
    ELSE IF ex.value.exit_code # 0
    THEN Raise("ValueError", "Failed to get current user: " \o ex.value.stderr)
    ELSE Return(strip(ex.value.stdout))

\* assign_to_me after the "me" call: it raises, or goes on (Return(current user)).
assign_to_me_resolved(ex) ==
    IF ex.kind = "raise" THEN ex
    ELSE IF ex.value.exit_code # 0
    THEN Raise("ValueError", "Failed to get current user: " \o ex.value.stderr)
    ELSE IF strip(ex.value.stdout) = ""
    THEN Raise("ValueError", "Unable to determine current user")
    ELSE Return(strip(ex.value.stdout))

\* assign_to_me after the assign command.
assign_to_me_result(ticket_key, current_user, ex) ==
    IF ex.kind = "raise" THEN ex
    ELSE IF ex.value.exit_code # 0
    THEN Raise("ValueError", "Failed to assign ticket " \o ticket_key \o ": "
                             \o ex.value.stderr)
    ELSE Return(AssignToMeResult(ticket_key, current_user))

open_ticket_in_browser_result(ticket_key, ex) ==
    IF ex.kind = "raise" THEN ex
    ELSE IF ex.value.exit_code # 0
    THEN Raise("ValueError", "Failed to open ticket " \o ticket_key \o " in browser: "
                             \o ex.value.stderr)
    ELSE Return("Successfully opened ticket " \o ticket_key \o " in browser")

update_ticket_description_args(ticket_key) == <<"issue", "edit", ticket_key, "--no-input">>

update_ticket_description_result(ticket_key, ex) ==
    IF ex.kind = "raise" THEN ex
    ELSE IF ex.value.exit_code # 0
    THEN Raise("ValueError", "Failed to update ticket " \o ticket_key \o ": "
                             \o ex.value.stderr)
    ELSE Return(TicketMessage(ticket_key,
                              "Successfully updated description for " \o ticket_key))

-----------------------------------------------------------------------------
(* src/tools/tool_utils.py: sprints and edit_ticket *)

Sprint(id, name, state, start_date, end_date) ==
    [id |-> id, name |-> name, state |-> state, start_date |-> start_date,
     end_date |-> end_date, goal |-> None]

ListSprintsResult(sprints) == [sprints |-> sprints]

list_sprints_args(p) ==
    <<"sprint", "list", "--board", str_int(p.board_id), "--plain", "--no-headers",
      "--columns", "id,name,state,startdate,enddate">>
    \o (IF TruthyStr(p.state) THEN <<"--state", p.state[1]>> ELSE <<>>)
    \o (IF p.limit > 0 THEN <<"--paginate", "0:" \o str_int(p.limit)>> ELSE <<>>)

RECURSIVE DigitsValue(_, _)
\* The number the decimal digits of s spell after the digits that spell acc, or -1
\* when a character of s is no digit.
DigitsValue(s, acc) ==
    IF Len(s) = 0 THEN acc
    ELSE LET d == FindFrom("0123456789", SubSeq(s, 1, 1), 1)
         IN  IF d = 0 THEN -1 ELSE DigitsValue(SubSeq(s, 2, Len(s)), 10 * acc + (d - 1))

\* int(s), s a stripped column: decimal digits, or a ValueError.
int_of(s) ==
    IF Len(s) > 0 /\ DigitsValue(s, 0) >= 0 THEN Return(DigitsValue(s, 0))
    ELSE Raise("ValueError", "invalid literal for int() with base 10: '" \o s \o "'")

RECURSIVE SprintRows(_)
\* The loop over the lines: the sprints, or the ValueError of the first row whose id
\* is no number.
SprintRows(lines) ==
    IF Len(lines) = 0 THEN Return(<<>>)
    ELSE LET columns == Columns(lines[1])
             id == int_of(columns[1])
             rest == SprintRows(Tail(lines))
         IN  IF Len(columns) < 3 THEN rest
             ELSE IF id.kind = "raise" THEN id
             ELSE IF rest.kind = "raise" THEN rest
             ELSE Return(<<Sprint(id.value, columns[2], columns[3],
                                  IF Len(columns) > 3 THEN Some(columns[4]) ELSE None,
                                  IF Len(columns) > 4 THEN Some(columns[5]) ELSE None)>>
                         \o rest.value)

\* A list_sprints that looks for "no sprints" in stderr as it is, not lower-cased.
list_sprints_result_case_sensitive(ex) ==
    IF ex.kind = "raise" THEN ex
    ELSE LET result == ex.value
             rows == SprintRows(OutputLines(result.stdout))
         IN  IF result.exit_code # 0
             THEN IF \/ Contains(result.stderr, "No result found")
                     \/ Contains(result.stderr, "no sprints")
                  THEN Return(ListSprintsResult(<<>>))
                  ELSE Raise("ValueError", "Failed to list sprints: " \o result.stderr)
             ELSE IF rows.kind = "raise" THEN rows
             ELSE Return(ListSprintsResult(rows.value))

list_sprints_result(ex) ==
    IF ex.kind = "raise" THEN ex
    ELSE LET result == ex.value
             rows == SprintRows(OutputLines(result.stdout))
         IN  IF result.exit_code # 0
             THEN IF \/ Contains(result.stderr, "No result found")
                     \/ Contains(lower(result.stderr), "no sprints")
                  THEN Return(ListSprintsResult(<<>>))
                  ELSE Raise("ValueError", "Failed to list sprints: " \o result.stderr)
             ELSE IF rows.kind = "raise" THEN rows
             ELSE Return(ListSprintsResult(rows.value))

add_to_sprint_args(ticket_key, sprint_id) ==
    <<"sprint", "add", str_int(sprint_id), ticket_key>>

add_to_sprint_result(ticket_key, sprint_id, ex) ==
    IF ex.kind = "raise" THEN ex
    ELSE IF ex.value.exit_code # 0
    THEN Raise("ValueError", "Failed to add " \o ticket_key \o " to sprint "
                             \o str_int(sprint_id) \o ": " \o ex.value.stderr)
    ELSE Return([success |-> TRUE, ticket_key |-> ticket_key, sprint_id |-> sprint_id,
                 message |-> "Successfully added " \o ticket_key \o " to sprint "
                             \o str_int(sprint_id)])

remove_from_sprint_args(ticket_key) ==
    <<"issue", "edit", ticket_key, "--custom", "sprint=", "--no-input">>

remove_from_sprint_result(ticket_key, ex) ==
    IF ex.kind = "raise" THEN ex
    ELSE IF ex.value.exit_code # 0
    THEN Raise("ValueError", "Failed to remove " \o ticket_key \o " from sprint: "
                             \o ex.value.stderr)
    ELSE Return(TicketMessage(ticket_key,
                              "Successfully removed " \o ticket_key \o " from its sprint"))

EditTicketResult(success, ticket_key, message, updated_fields) ==
    [success |-> success, ticket_key |-> ticket_key, message |-> message,
     updated_fields |-> updated_fields]

RECURSIVE FlaggedPrefixed(_, _, _)
\* for x in xs: args.extend([flag, f"{prefix}{x}"])
FlaggedPrefixed(flag, prefix, xs) ==
    IF Len(xs) = 0 THEN <<>>
    ELSE <<flag, prefix \o xs[1]>> \o FlaggedPrefixed(flag, prefix, Tail(xs))

RECURSIVE CustomArgs(_)
\* custom_fields is the sequence of the dict's <<key, value>> items
CustomArgs(items) ==
    IF Len(items) = 0 THEN <<>>
    ELSE <<"--custom", items[1][1] \o "=" \o items[1][2]>> \o CustomArgs(Tail(items))

RECURSIVE CustomNames(_)
CustomNames(items) ==
    IF Len(items) = 0 THEN <<>>
    ELSE <<"custom:" \o items[1][1]>> \o CustomNames(Tail(items))

edit_ticket_args(p) ==
    <<"issue", "edit", p.ticket_key, "--no-input">>
    \o (IF TruthyStr(p.summary) THEN <<"--summary", p.summary[1]>> ELSE <<>>)
    \o (IF TruthyStr(p.priority) THEN <<"--priority", p.priority[1]>> ELSE <<>>)
    \o (IF p.assignee # None
        THEN <<"--assignee", IF p.assignee[1] = "" THEN "x" ELSE p.assignee[1]>>
        ELSE <<>>)
    \o (IF TruthyList(p.labels) THEN Flagged("--label", p.labels[1]) ELSE <<>>)
    \o (IF TruthyList(p.add_labels)
        THEN FlaggedPrefixed("--label", "+", p.add_labels[1]) ELSE <<>>)
    \o (IF TruthyList(p.remove_labels)
        THEN FlaggedPrefixed("--label", "-", p.remove_labels[1]) ELSE <<>>)
    \o (IF TruthyList(p.components) THEN Flagged("--component", p.components[1]) ELSE <<>>)
    \o (IF TruthyList(p.fix_versions)
        THEN Flagged("--fix-version", p.fix_versions[1]) ELSE <<>>)
    \o (IF TruthyStr(p.parent) THEN <<"--parent", p.parent[1]>> ELSE <<>>)
    \o (IF TruthyList(p.custom_fields) THEN CustomArgs(p.custom_fields[1]) ELSE <<>>)

\* An edit_ticket that takes an empty assignee for no assignee.
edit_ticket_updated_fields_truthy_assignee(p) ==
    (IF TruthyStr(p.summary) THEN <<"summary">> ELSE <<>>)
    \o (IF TruthyStr(p.priority) THEN <<"priority">> ELSE <<>>)
    \o (IF TruthyStr(p.assignee) THEN <<"assignee">> ELSE <<>>)
    \o (IF TruthyList(p.labels) THEN <<"labels">> ELSE <<>>)
    \o (IF TruthyList(p.add_labels) THEN <<"labels (added)">> ELSE <<>>)
    \o (IF TruthyList(p.remove_labels) THEN <<"labels (removed)">> ELSE <<>>)
    \o (IF TruthyList(p.components) THEN <<"components">> ELSE <<>>)
    \o (IF TruthyList(p.fix_versions) THEN <<"fix_versions">> ELSE <<>>)
    \o (IF TruthyStr(p.parent) THEN <<"parent">> ELSE <<>>)
    \o (IF TruthyList(p.custom_fields) THEN CustomNames(p.custom_fields[1]) ELSE <<>>)

edit_ticket_updated_fields(p) ==
    (IF TruthyStr(p.summary) THEN <<"summary">> ELSE <<>>)
    \o (IF TruthyStr(p.priority) THEN <<"priority">> ELSE <<>>)
    \o (IF p.assignee # None THEN <<"assignee">> ELSE <<>>)
    \o (IF TruthyList(p.labels) THEN <<"labels">> ELSE <<>>)
    \o (IF TruthyList(p.add_labels) THEN <<"labels (added)">> ELSE <<>>)
    \o (IF TruthyList(p.remove_labels) THEN <<"labels (removed)">> ELSE <<>>)
    \o (IF TruthyList(p.components) THEN <<"components">> ELSE <<>>)
    \o (IF TruthyList(p.fix_versions) THEN <<"fix_versions">> ELSE <<>>)
    \o (IF TruthyStr(p.parent) THEN <<"parent">> ELSE <<>>)
    \o (IF TruthyList(p.custom_fields) THEN CustomNames(p.custom_fields[1]) ELSE <<>>)

\* An edit_ticket without the test for "no fields".
edit_ticket_no_fields_skipped(updated_fields) == FALSE

\* "if not updated_fields:" edit_ticket returns before it calls the executor.
edit_ticket_no_fields(updated_fields) == Len(updated_fields) = 0

edit_ticket_early_return(ticket_key) ==
    Return(EditTicketResult(FALSE, ticket_key, "No fields specified to update", <<>>))

edit_ticket_result(ticket_key, updated_fields, ex) ==
    IF ex.kind = "raise" THEN ex
    ELSE IF ex.value.exit_code # 0
    THEN Raise("ValueError", "Failed to edit ticket " \o ticket_key \o ": "
                             \o ex.value.stderr)
    ELSE Return(EditTicketResult(TRUE, ticket_key,
                    "Successfully updated " \o ticket_key \o ": "
                    \o Join(updated_fields, ", "),
                    updated_fields))

-----------------------------------------------------------------------------
(* src/tools/tool_utils.py: the rich-document renderer and get_ticket *)

\* node.get("type") == kind
IsType(node, kind) == DictGet(node, "type", JNull) = JStr(kind)

\* node.get("content", [])
ContentOf(node) == DictGet(node, "content", JList(<<>>)).l

\* The backquote character, which a string of this module cannot hold: "^" stands
\* for it, and no text given to the renderer holds a "^".
BACKQUOTE == "^"
FENCE == BACKQUOTE \o BACKQUOTE \o BACKQUOTE

\* One step of the loop over a text node's marks.
apply_mark(text, mark) ==
    IF IsType(mark, "strong") THEN "**" \o text \o "**"
    ELSE IF IsType(mark, "em") THEN "*" \o text \o "*"
    ELSE IF IsType(mark, "code") THEN BACKQUOTE \o text \o BACKQUOTE
    ELSE IF IsType(mark, "strike") THEN "~~" \o text \o "~~"
    ELSE text

RECURSIVE apply_marks_last_innermost(_, _)
\* Marks applied from the last to the first: the first mark is the outermost.
apply_marks_last_innermost(text, marks) ==
    IF Len(marks) = 0 THEN text
    ELSE apply_mark(apply_marks_last_innermost(text, Tail(marks)), marks[1])

RECURSIVE apply_marks(_, _)
apply_marks(text, marks) ==
    IF Len(marks) = 0 THEN text
    ELSE apply_marks(apply_mark(text, marks[1]), Tail(marks))

RECURSIVE InlinePieces(_)
InlinePieces(nodes) ==
    IF Len(nodes) = 0 THEN <<>>
    ELSE LET node == nodes[1]
         IN  (IF IsType(node, "text")
              THEN <<apply_marks(DictGet(node, "text", JStr("")).s,
                                 DictGet(node, "marks", JList(<<>>)).l)>>
              ELSE IF IsType(node, "hardBreak") THEN <<"\n">>
              ELSE <<>>)
             \o InlinePieces(Tail(nodes))

process_inline_content(nodes) == Join(InlinePieces(nodes), "")

\* A prefix of one "#" whatever the level.
Repeat_once(s, n) == s

RECURSIVE Repeat(_, _)
\* s * n
Repeat(s, n) == IF n <= 0 THEN "" ELSE s \o Repeat(s, n - 1)

RECURSIVE ParagraphTexts(_)
\* [process_inline_content(p["content"]) for p in ps
\*  if p.get("type") == "paragraph" and p.get("content")]
ParagraphTexts(ps) ==
    IF Len(ps) = 0 THEN <<>>
    ELSE (IF IsType(ps[1], "paragraph") /\ Len(ContentOf(ps[1])) > 0
          THEN <<process_inline_content(ContentOf(ps[1]))>>
          ELSE <<>>)
         \o ParagraphTexts(Tail(ps))

RECURSIVE BulletItems_bare(_)
\* Items without the "- " prefix.
BulletItems_bare(items) ==
    IF Len(items) = 0 THEN <<>>
    ELSE LET item_parts == ParagraphTexts(ContentOf(items[1]))
         IN  (IF Len(item_parts) > 0 THEN <<Join(item_parts, " ")>> ELSE <<>>)
             \o BulletItems_bare(Tail(items))

RECURSIVE BulletItems(_)
BulletItems(items) ==
    IF Len(items) = 0 THEN <<>>
    ELSE LET item_parts == ParagraphTexts(ContentOf(items[1]))
         IN  (IF Len(item_parts) > 0 THEN <<"- " \o Join(item_parts, " ")>> ELSE <<>>)
             \o BulletItems(Tail(items))

RECURSIVE OrderedItems_renumbered(_, _)
\* Numbers that count the rendered items only, not the positions.
OrderedItems_renumbered(items, num) ==
    IF Len(items) = 0 THEN <<>>
    ELSE LET item_parts == ParagraphTexts(ContentOf(items[1]))
         IN  IF Len(item_parts) > 0
             THEN <<str_int(num) \o ". " \o Join(item_parts, " ")>>
                  \o OrderedItems_renumbered(Tail(items), num + 1)
             ELSE OrderedItems_renumbered(Tail(items), num)

RECURSIVE OrderedItems(_, _)
\* num is start_num + idx of the first item of items
OrderedItems(items, num) ==
    IF Len(items) = 0 THEN <<>>
    ELSE LET item_parts == ParagraphTexts(ContentOf(items[1]))
         IN  (IF Len(item_parts) > 0
              THEN <<str_int(num) \o ". " \o Join(item_parts, " ")>>
              ELSE <<>>)
             \o OrderedItems(Tail(items), num + 1)

RECURSIVE CodeTexts(_)
CodeTexts(nodes) ==
    IF Len(nodes) = 0 THEN <<>>
    ELSE <<DictGet(nodes[1], "text", JStr("")).s>> \o CodeTexts(Tail(nodes))

RECURSIVE QuotedLines(_)
QuotedLines(texts) ==
    IF Len(texts) = 0 THEN <<>> ELSE <<"> " \o texts[1]>> \o QuotedLines(Tail(texts))

\* What one pass of the loop over the document's blocks appends to parts.
block_parts(block) ==
    LET block_content == ContentOf(block)
        attrs == DictGet(block, "attrs", JDict(<<>>))
    IN  IF IsType(block, "paragraph")
        THEN IF Len(block_content) > 0 /\ process_inline_content(block_content) # ""
             THEN <<process_inline_content(block_content)>> ELSE <<>>
        ELSE IF IsType(block, "heading")
        THEN IF Len(block_content) > 0 /\ process_inline_content(block_content) # ""
             THEN <<Repeat("#", DictGet(attrs, "level", JInt(1)).n) \o " "
                    \o process_inline_content(block_content)>>
             ELSE <<>>
        ELSE IF IsType(block, "bulletList")
        THEN IF Len(BulletItems(block_content)) > 0
             THEN <<Join(BulletItems(block_content), "\n")>> ELSE <<>>
        ELSE IF IsType(block, "orderedList")
        THEN LET list_items ==
                   OrderedItems(block_content, DictGet(attrs, "start", JInt(1)).n)
             IN  IF Len(list_items) > 0 THEN <<Join(list_items, "\n")>> ELSE <<>>
        ELSE IF IsType(block, "codeBlock")
        THEN <<FENCE \o DictGet(attrs, "language", JStr("")).s \o "\n"
               \o Join(CodeTexts(block_content), "") \o "\n" \o FENCE>>
        ELSE IF IsType(block, "rule") THEN <<"---">>
        ELSE IF IsType(block, "blockquote")
        THEN IF Len(ParagraphTexts(block_content)) > 0
             THEN <<Join(QuotedLines(ParagraphTexts(block_content)), "\n")>> ELSE <<>>
        ELSE <<>>

RECURSIVE AdfParts(_)
AdfParts(blocks) ==
    IF Len(blocks) = 0 THEN <<>> ELSE block_parts(blocks[1]) \o AdfParts(Tail(blocks))

\* Fragments separated by one newline.
_convert_adf_to_text_single_newline(adf) == Join(AdfParts(ContentOf(adf)), "\n")

_convert_adf_to_text(adf) == Join(AdfParts(ContentOf(adf)), "\n\n")

JiraComment(author, created, body) ==
    [author |-> author, created |-> created, body |-> body]

\* The body of a comment as get_ticket stores it.
comment_body_of(c) ==
    LET comment_body == DictGet(c, "body", JStr(""))
    IN  IF comment_body.t = "dict" THEN _convert_adf_to_text(comment_body)
        ELSE IF comment_body.t = "str" THEN comment_body.s
        ELSE IF comment_body.t = "int" THEN str_int(comment_body.n)
        ELSE "None"

RECURSIVE ticket_comments_of(_)
ticket_comments_of(comment_data) ==
    IF Len(comment_data) = 0 THEN <<>>
    ELSE LET c == comment_data[1]
         IN  <<JiraComment(
                 DictGet(DictGet(c, "author", JDict(<<>>)), "displayName", JStr("Unknown")).s,
                 DictGet(c, "created", JStr("")).s,
                 comment_body_of(c))>>
             \o ticket_comments_of(Tail(comment_data))

\* The description text get_ticket reports.
description_text_of(description) ==
    IF description.t = "dict" /\ DOMAIN description.d # {}
    THEN _convert_adf_to_text(description)
    ELSE ""

\* fields.get(k, {}).get("name", "")
NameOf(fields, k) == DictGet(DictGet(fields, k, JDict(<<>>)), "name", JStr("")).s

\* fields.get(k, {}).get("displayName") if fields.get(k) else None
DisplayNameOf(fields, k) ==
    LET person == DictGet(fields, k, JNull)
    IN  IF person.t = "dict" /\ "displayName" \in DOMAIN person.d
        THEN Some(person.d["displayName"].s)
        ELSE None

\* get_ticket from raw_data on; the members of fields are of the types jira-cli
\* gives them (status, priority, issuetype and comment are dicts, texts strings).
ticket_detail_of(raw_data) ==
    IF raw_data.t # "dict" THEN NoGet(raw_data)
    ELSE LET fields == DictGet(raw_data, "fields", JDict(<<>>))
         IN  IF fields.t # "dict" THEN NoGet(fields)
             ELSE Return(
                 [key |-> DictGet(raw_data, "key", JStr("")).s,
                  summary |-> DictGet(fields, "summary", JStr("")).s,
                  status |-> NameOf(fields, "status"),
                  priority |-> NameOf(fields, "priority"),
                  type |-> NameOf(fields, "issuetype"),
                  assignee |-> DisplayNameOf(fields, "assignee"),
                  reporter |-> DisplayNameOf(fields, "reporter"),
                  created |-> Some(DictGet(fields, "created", JStr("")).s),
                  updated |-> Some(DictGet(fields, "updated", JStr("")).s),
                  description |->
                      Some(description_text_of(DictGet(fields, "description", JNull))),
                  comments |->
                      ticket_comments_of(
                          DictGet(DictGet(fields, "comment", JDict(<<>>)), "comments",
                                  JList(<<>>)).l)])

get_ticket_args(p) ==
    <<"issue", "view", p.ticket_key, "--raw">>
    \o (IF p.comments > 0 THEN <<"--comments", str_int(p.comments)>> ELSE <<>>)

\* get_ticket after its executor call; parsed is what json.loads did with stdout.
get_ticket_result(ticket_key, ex, parsed) ==
    IF ex.kind = "raise" THEN ex
    ELSE IF ex.value.exit_code # 0
    THEN Raise("ValueError", "Failed to get ticket " \o ticket_key \o ": "
                             \o ex.value.stderr)
    ELSE IF parsed.kind = "raise"
    THEN Raise("ValueError", "Failed to parse jira response: " \o ex.value.stdout)
    ELSE ticket_detail_of(parsed.value)

-----------------------------------------------------------------------------
(* src/main.py: the boundary tools.  Each is "try: <operation>; return <text>"
   with "except Exception as e: return f'Error ...: {e}'". *)

\* An except clause that drops the exception's text.
tool_error_generic(prefix, out) == prefix \o ": operation failed"

\* The except clause of a tool: the message it returns for the exception of out.
tool_error(prefix, out) == prefix \o ": " \o out.msg

RECURSIVE TicketLines(_)
TicketLines(tickets) ==
    IF Len(tickets) = 0 THEN <<>>
    ELSE LET t == tickets[1]
             assignee_str == IF TruthyStr(t.assignee)
                             THEN " | Assignee: " \o t.assignee[1] ELSE ""
         IN  <<t.key \o ": " \o t.summary \o "\n  Status: " \o t.status
               \o " | Priority: " \o t.priority \o " | Type: " \o t.type \o assignee_str>>
             \o TicketLines(Tail(tickets))

\* What list_tickets_tool returns, given what list_tickets did.
list_tickets_tool_return(out) ==
    IF out.kind = "raise" THEN tool_error("Error listing tickets", out)
    ELSE IF Len(out.value) = 0 THEN "No tickets found."
    ELSE Join(TicketLines(out.value), "\n\n")

RECURSIVE CommentLines(_)
CommentLines(comments) ==
    IF Len(comments) = 0 THEN <<>>
    ELSE <<"- **" \o comments[1].author \o "** (" \o comments[1].created \o "):\n  "
           \o comments[1].body>>
         \o CommentLines(Tail(comments))

\* The indentation of the lines of get_ticket_tool's template after the first; the
\* first has none, so textwrap.dedent finds no common margin and removes nothing.
INDENT == "            "

get_ticket_tool_return(ticket_key, out) ==
    IF out.kind = "raise" THEN tool_error("Error getting ticket " \o ticket_key, out)
    ELSE LET ticket == out.value
             comments_text == IF Len(ticket.comments) > 0
                              THEN Join(CommentLines(ticket.comments), "\n\n")
                              ELSE "No comments"
         IN  "**" \o ticket.key \o ": " \o ticket.summary \o "**\n\n"
             \o INDENT \o "**Details:**\n"
             \o INDENT \o "- Status: " \o ticket.status \o "\n"
             \o INDENT \o "- Priority: " \o ticket.priority \o "\n"
             \o INDENT \o "- Type: " \o ticket.type \o "\n"
             \o INDENT \o "- Assignee: "
             \o (IF TruthyStr(ticket.assignee) THEN ticket.assignee[1] ELSE "Unassigned")
             \o "\n"
             \o INDENT \o "- Reporter: "
             \o (IF TruthyStr(ticket.reporter) THEN ticket.reporter[1] ELSE "Unknown")
             \o "\n"
             \o INDENT \o "- Created: " \o ticket.created[1] \o "\n"
             \o INDENT \o "- Updated: " \o ticket.updated[1] \o "\n\n"
             \o INDENT \o "**Description:**\n"
             \o INDENT
             \o (IF TruthyStr(ticket.description) THEN ticket.description[1]
                 ELSE "No description provided")
             \o "\n\n"
             \o INDENT \o "**Comments (" \o str_int(Len(ticket.comments)) \o "):**\n"
             \o INDENT \o comments_text

\* f"{x}" for x: str | None
fmt_opt(o) == IF o = None THEN "None" ELSE o[1]

create_ticket_tool_return(out) ==
    IF out.kind = "raise" THEN tool_error("Error creating ticket", out)
    ELSE IF ~out.value.success
    THEN "Failed to create ticket: " \o fmt_opt(out.value.error)
    ELSE "Successfully created ticket " \o fmt_opt(out.value.ticket_key)
         \o "\nURL: " \o fmt_opt(out.value.ticket_url)

\* The tools that return result.message.
message_tool_return(prefix, out) ==
    IF out.kind = "raise" THEN tool_error(prefix, out) ELSE out.value.message

move_ticket_tool_return(ticket_key, out) ==
    message_tool_return("Error moving ticket " \o ticket_key, out)

add_comment_tool_return(ticket_key, out) ==
    message_tool_return("Error adding comment to " \o ticket_key, out)

assign_to_me_tool_return(ticket_key, out) ==
    message_tool_return("Error assigning ticket " \o ticket_key, out)

open_ticket_in_browser_tool_return(ticket_key, out) ==
    IF out.kind = "raise"
    THEN tool_error("Error opening ticket " \o ticket_key \o " in browser", out)
    ELSE out.value

update_ticket_description_tool_return(ticket_key, out) ==
    message_tool_return("Error updating description for " \o ticket_key, out)

RECURSIVE SprintLines(_)
SprintLines(sprints) ==
    IF Len(sprints) = 0 THEN <<>>
    ELSE LET sp == sprints[1]
             date_info ==
                 (IF TruthyStr(sp.start_date) THEN " | Start: " \o sp.start_date[1] ELSE "")
                 \o (IF TruthyStr(sp.end_date) THEN " | End: " \o sp.end_date[1] ELSE "")
         IN  <<"Sprint " \o str_int(sp.id) \o ": " \o sp.name \o "\n  State: " \o sp.state
               \o date_info>>
             \o SprintLines(Tail(sprints))

list_sprints_tool_return(out) ==
    IF out.kind = "raise" THEN tool_error("Error listing sprints", out)
    ELSE IF Len(out.value.sprints) = 0 THEN "No sprints found."
    ELSE Join(SprintLines(out.value.sprints), "\n\n")

add_to_sprint_tool_return(ticket_key, out) ==
    message_tool_return("Error adding " \o ticket_key \o " to sprint", out)

remove_from_sprint_tool_return(ticket_key, out) ==
    message_tool_return("Error removing " \o ticket_key \o " from sprint", out)

edit_ticket_tool_return(ticket_key, out) ==
    message_tool_return("Error editing ticket " \o ticket_key, out)

-----------------------------------------------------------------------------
(* Inputs: the parameters the host gives the tools, and the answers of jira-cli. *)

TicketKeys == {"TEST-123", "PROJ-7"}

\* None, and the lists of at most MaxListLen members of S.
OptListsOf(S) == {None} \cup {Some(xs) : xs \in UNION {[1..n -> S] : n \in 0..MaxListLen}}

\* Every choice of which fields are given, and for one field at a time the values
\* that are given but empty, the longer lists and a second custom field.
EditTicketInputs ==
    [ticket_key : {"TEST-123"}, summary : {None, Some("New summary")},
     priority : {None, Some("High")}, assignee : {None, Some("john.doe")},
     labels : {None, Some(<<"bug">>)}, add_labels : {None, Some(<<"urgent">>)},
     remove_labels : {None, Some(<<"stale">>)}, components : {None, Some(<<"backend">>)},
     fix_versions : {None, Some(<<"1.2">>)}, parent : {None, Some("TEST-1")},
     custom_fields : {None, Some(<<<<"team", "core">>>>)}]
    \cup
    [ticket_key : TicketKeys, summary : {None, Some("")}, priority : {None, Some("High")},
     assignee : {None, Some("")}, labels : {None}, add_labels : {None},
     remove_labels : {None}, components : {None}, fix_versions : {None},
     parent : {None}, custom_fields : {None}]
    \cup
    [ticket_key : TicketKeys, summary : {None}, priority : {None}, assignee : {None},
     labels : OptListsOf({"bug"}), add_labels : {None}, remove_labels : {None},
     components : {None}, fix_versions : {None}, parent : {None},
     custom_fields : {None, Some(<<>>), Some(<<<<"team", "core">>, <<"points", "3">>>>)}]

\* The stderr of a call that failed, for the operations that only report it.
FailStderrs == {"", "Permission denied"}

\* The ways a call of the external binary can end, given the stdouts of a zero exit
\* and the stderrs of a non-zero one.
ProcOutcomes(stdouts, stderrs) ==
    {FileNotFound, TimedOut}
    \cup {Exited(so, "", 0) : so \in stdouts}
    \cup {Exited("", se, 1) : se \in stderrs}
    \cup {Exited("partial output", "Permission denied", 2)}

CreatedJson ==
    "{\"key\": \"TEST-456\", \"self\": \"https://jira.example.com/rest/api/2/issue/12345\"}"

PlainTicketJson ==
    "{\"key\": \"TEST-123\", \"fields\": {\"summary\": \"Test ticket\", "
    \o "\"status\": {\"name\": \"Open\"}, \"priority\": {\"name\": \"High\"}, "
    \o "\"issuetype\": {\"name\": \"Bug\"}, \"assignee\": {\"displayName\": \"John Doe\"}, "
    \o "\"reporter\": null, \"created\": \"2024-01-01\", \"updated\": \"2024-01-02\", "
    \o "\"description\": \"Plain description\", \"comment\": {\"comments\": ["
    \o "{\"author\": {\"displayName\": \"Jane\"}, \"created\": \"2024-01-03\", "
    \o "\"body\": \"Plain comment\"}]}}}"

AdfTicketJson ==
    "{\"key\": \"TEST-123\", \"fields\": {\"summary\": \"Rich ticket\", "
    \o "\"description\": {\"type\": \"doc\", \"content\": ["
    \o "{\"type\": \"heading\", \"attrs\": {\"level\": 2}, \"content\": ["
    \o "{\"type\": \"text\", \"text\": \"Title\"}]}, "
    \o "{\"type\": \"paragraph\", \"content\": ["
    \o "{\"type\": \"text\", \"text\": \"bold\", \"marks\": [{\"type\": \"strong\"}]}]}]}, "
    \o "\"comment\": {\"comments\": [{\"created\": \"2024-01-03\", "
    \o "\"body\": {\"type\": \"doc\", \"content\": [{\"type\": \"paragraph\", "
    \o "\"content\": [{\"type\": \"text\", \"text\": \"Rich comment\"}]}]}}]}}}"

\* json.loads on the texts jira-cli answers with: the value of each text that is
\* JSON; every other text is not JSON.
JsonDocuments ==
    (CreatedJson :> JDict([key |-> JStr("TEST-456"),
                           self |-> JStr("https://jira.example.com/rest/api/2/issue/12345")]))
    @@ ("{}" :> JDict(<<>>))
    @@ ("[]" :> JList(<<>>))
    @@ ("{\"key\": \"TEST-123\", \"fields\": {}}"
        :> JDict([key |-> JStr("TEST-123"), fields |-> JDict(<<>>)]))
    @@ (PlainTicketJson
        :> JDict([key |-> JStr("TEST-123"),
                  fields |-> JDict(
                    [summary |-> JStr("Test ticket"),
                     status |-> JDict([name |-> JStr("Open")]),
                     priority |-> JDict([name |-> JStr("High")]),
                     issuetype |-> JDict([name |-> JStr("Bug")]),
                     assignee |-> JDict([displayName |-> JStr("John Doe")]),
                     reporter |-> JNull,
                     created |-> JStr("2024-01-01"),
                     updated |-> JStr("2024-01-02"),
                     description |-> JStr("Plain description"),
                     comment |-> JDict([comments |-> JList(<<
                        JDict([author |-> JDict([displayName |-> JStr("Jane")]),
                               created |-> JStr("2024-01-03"),
                               body |-> JStr("Plain comment")])>>)])])]))
    @@ (AdfTicketJson
        :> JDict([key |-> JStr("TEST-123"),
                  fields |-> JDict(
                    [summary |-> JStr("Rich ticket"),
                     description |-> JDict(
                        [type |-> JStr("doc"),
                         content |-> JList(<<
                            JDict([type |-> JStr("heading"),
                                   attrs |-> JDict([level |-> JInt(2)]),
                                   content |-> JList(<<
                                      JDict([type |-> JStr("text"),
                                             text |-> JStr("Title")])>>)]),
                            JDict([type |-> JStr("paragraph"),
                                   content |-> JList(<<
                                      JDict([type |-> JStr("text"), text |-> JStr("bold"),
                                             marks |-> JList(<<
                                                JDict([type |-> JStr("strong")])>>)])
                                      >>)])>>)]),
                     comment |-> JDict([comments |-> JList(<<
                        JDict([created |-> JStr("2024-01-03"),
                               body |-> JDict(
                                  [type |-> JStr("doc"),
                                   content |-> JList(<<
                                      JDict([type |-> JStr("paragraph"),
                                             content |-> JList(<<
                                                JDict([type |-> JStr("text"),
                                                       text |-> JStr("Rich comment")])
                                                >>)])>>)])])
                        >>)])])]))

json_loads(text) ==
    IF text \in DOMAIN JsonDocuments THEN Return(JsonDocuments[text])
    ELSE Raise("JSONDecodeError", "Expecting value: line 1 column 1 (char 0)")

\* An execute_jira_command_json that parses stdout before it looks at the exit code.
execute_jira_command_json_parsing_first(args, proc) ==
    LET ex == execute_jira_command(args, proc)
    IN  IF ex.kind = "raise" THEN ex
        ELSE IF json_loads(ex.value.stdout).kind = "raise"
        THEN Raise("ValueError", "Failed to parse jira output as JSON: " \o ex.value.stdout)
        ELSE IF ex.value.exit_code # 0
        THEN Raise("ValueError", "jira command failed: " \o ex.value.stderr)
        ELSE json_loads(ex.value.stdout)

\* execute_jira_command_json(args), given what subprocess.run did.
execute_jira_command_json(args, proc) ==
    LET ex == execute_jira_command(args, proc)
    IN  IF ex.kind = "raise" THEN ex
        ELSE IF ex.value.exit_code # 0
        THEN Raise("ValueError", "jira command failed: " \o ex.value.stderr)
        ELSE IF json_loads(ex.value.stdout).kind = "raise"
        THEN Raise("ValueError", "Failed to parse jira output as JSON: " \o ex.value.stdout)
        ELSE json_loads(ex.value.stdout)

-----------------------------------------------------------------------------
(* The state machine. *)

NoRequest == [tool |-> "none"]
NoLocals == [none |-> TRUE]

Init ==
    /\ JIRA_CLI_PATH \in {None, Some("/opt/jira/bin/jira")}
    /\ pc = "idle"
    /\ req = NoRequest
    /\ invoked = 0
    /\ locals = NoLocals
    /\ calls = <<>>
    /\ resps = <<>>
    /\ outcome = None
    /\ toolOut = None

\* A tool is invoked: its operation function is entered and issues its first call.
Begin(tool, params, loc, args, stdin) ==
    /\ req' = [tool |-> tool, params |-> params]
    /\ invoked' = 1
    /\ locals' = loc
    /\ calls' = <<[args |-> args, stdin |-> stdin]>>
    /\ resps' = <<>>
    /\ outcome' = None
    /\ toolOut' = None
    /\ pc' = "exec"
    /\ UNCHANGED JIRA_CLI_PATH

\* A tool is invoked and its operation function ends with out without a call.
BeginAndFinish(tool, params, loc, out, text) ==
    /\ req' = [tool |-> tool, params |-> params]
    /\ invoked' = 1
    /\ locals' = loc
    /\ calls' = <<>>
    /\ resps' = <<>>
    /\ outcome' = Some(out)
    /\ toolOut' = Some(text)
    /\ pc' = "done"
    /\ UNCHANGED JIRA_CLI_PATH

\* An operation function that issues its second call while the first is pending.
Continue_before_return(proc, loc, args, stdin) ==
    /\ locals' = loc
    /\ calls' = Append(calls, [args |-> args, stdin |-> stdin])
    /\ UNCHANGED <<JIRA_CLI_PATH, pc, req, invoked, outcome, toolOut, resps>>

\* The pending call ended with proc, and the operation function issues another call.
Continue(proc, loc, args, stdin) ==
    /\ resps' = Append(resps, proc)
    /\ locals' = loc
    /\ calls' = Append(calls, [args |-> args, stdin |-> stdin])
    /\ UNCHANGED <<JIRA_CLI_PATH, pc, req, invoked, outcome, toolOut>>

\* An executor that runs the process a second time when the timeout ran out.
Finish_respawning(proc, out, text) ==
    /\ resps' = (IF proc.kind = "TimeoutExpired" THEN Append(resps, proc) ELSE resps)
                \o <<proc>>
    /\ outcome' = Some(out)
    /\ toolOut' = Some(text)
    /\ pc' = "done"
    /\ UNCHANGED <<JIRA_CLI_PATH, req, invoked, locals, calls>>

\* The pending call ended with proc, the operation function ended with out and the
\* tool returned text.
Finish(proc, out, text) ==
    /\ resps' = Append(resps, proc)
    /\ outcome' = Some(out)
    /\ toolOut' = Some(text)
    /\ pc' = "done"
    /\ UNCHANGED <<JIRA_CLI_PATH, req, invoked, locals, calls>>

\* An executor call of tool is pending, the n-th of the invocation.
Pending(tool, n) == pc = "exec" /\ req.tool = tool /\ Len(calls) = n

\* What execute_jira_command does for the pending call when subprocess.run does proc.
Executed(proc) == execute_jira_command(calls[Len(calls)].args, proc)

list_tickets_tool ==
    /\ pc = "idle"
    \* every combination of the filters with the default listing, and every
    \* listing without filters
    /\ \E p \in
            [jql : {None, Some(""), Some("project = TEST")}, limit : {20},
             assigned_to_me : {None, Some(TRUE), Some(FALSE)}, unassigned : {None, Some(TRUE)},
             status : {None, Some(""), Some("in progress"), Some("Custom Status")},
             project : {None, Some("TEST")}, created_recently : {None, Some(TRUE)},
             updated_recently : {None, Some(TRUE)}, order_by : {None}, order_direction : {None}]
            \cup
            [jql : {None}, limit : {0, 10}, assigned_to_me : {None}, unassigned : {None},
             status : {None}, project : {None}, created_recently : {None},
             updated_recently : {None}, order_by : {None, Some(""), Some("created")},
             order_direction : {None, Some("asc"), Some("desc")}] :
            LET built_jql == _build_jql_from_params(p.jql, p.assigned_to_me, p.unassigned,
                                                    p.status, p.project, p.created_recently,
                                                    p.updated_recently)
            IN  Begin("list_tickets", p, [built_jql |-> built_jql],
                      list_tickets_args(p, built_jql), None)

list_tickets_returns ==
    /\ Pending("list_tickets", 1)
    /\ \E proc \in ProcOutcomes(
            {"",
             "TEST-1\tTest ticket 1\tOpen\tHigh\tBug\tJohn Doe\nTEST-2\tTest ticket 2\tDone\tMedium\tStory\t",
             "TEST-3\tShort row\tOpen\n\nTEST-4\tFull row\tOpen\tLow\tTask\n",
             "TEST-5\tPadded row\t\tOpen\tLow\tTask\tJane Roe\nTEST-6\tFour cells\tOpen\t \tBug"},
            {"", "No result found", "Error: No result found for given query",
             "no result found", "Permission denied"}) :
        LET out == list_tickets_result(Executed(proc))
        IN  Finish(proc, out, list_tickets_tool_return(out))

get_ticket_tool ==
    /\ pc = "idle"
    /\ \E ticket_key \in TicketKeys, comments \in {0, 5} :
            LET p == [ticket_key |-> ticket_key, comments |-> comments]
            IN  Begin("get_ticket", p, NoLocals, get_ticket_args(p), None)

get_ticket_returns ==
    /\ Pending("get_ticket", 1)
    /\ \E proc \in ProcOutcomes(
            {PlainTicketJson, AdfTicketJson, "{\"key\": \"TEST-123\", \"fields\": {}}",
             "[]", "not json"},
            FailStderrs) :
        LET out == get_ticket_result(req.params.ticket_key, Executed(proc),
                                     json_loads(proc.stdout))
        IN  Finish(proc, out, get_ticket_tool_return(req.params.ticket_key, out))

create_ticket_tool ==
    /\ pc = "idle"
    /\ \E p \in
            [project : {"TEST"}, issue_type : {"Bug"}, summary : {"New bug"},
             description : {None, Some(""), Some("Description text")},
             priority : {None, Some("High")}, assignee : {None, Some("john.doe")},
             labels : OptListsOf({"label1"}), components : {None, Some(<<"comp1">>)}] :
            Begin("create_ticket", p, NoLocals, create_ticket_args(p), create_ticket_stdin(p))

create_ticket_returns ==
    /\ Pending("create_ticket", 1)
    /\ \E proc \in ProcOutcomes({CreatedJson, "{}", "[]", "not json", ""},
                                 {"", "Project not found"}) :
        LET out == create_ticket_result(Executed(proc), json_loads(proc.stdout))
        IN  Finish(proc, out, create_ticket_tool_return(out))

move_ticket_tool ==
    /\ pc = "idle"
    /\ \E ticket_key \in TicketKeys, status \in {"in progress", "Done", "Custom Status", "IN REVIEW"} :
            Begin("move_ticket", [ticket_key |-> ticket_key, status |-> status],
                  [target_status |-> normalize_status(status), current_status |-> None],
                  move_ticket_view_args(ticket_key), None)

\* The status lookup of move_ticket returns.
move_ticket_view_returns ==
    /\ Pending("move_ticket", 1)
    /\ \E proc \in ProcOutcomes({"Open\n", "TEST-123\tOpen", "", " In Review \n"}, FailStderrs) :
        LET ticket_key == req.params.ticket_key
            viewed == move_ticket_viewed(ticket_key, Executed(proc))
        IN  IF viewed.kind = "raise"
            THEN Finish(proc, viewed, move_ticket_tool_return(ticket_key, viewed))
            ELSE Continue(proc, [locals EXCEPT !.current_status = Some(viewed.value)],
                          move_ticket_move_args(ticket_key, locals.target_status), None)

\* The transition command of move_ticket returns.
move_ticket_move_returns ==
    /\ Pending("move_ticket", 2)
    /\ \E proc \in ProcOutcomes({""}, FailStderrs) :
        LET ticket_key == req.params.ticket_key
            out == move_ticket_result(ticket_key, locals.current_status[1],
                                      locals.target_status, Executed(proc))
        IN  Finish(proc, out, move_ticket_tool_return(ticket_key, out))

add_comment_tool ==
    /\ pc = "idle"
    /\ \E ticket_key \in TicketKeys, comment \in {"Looks good", "line 1\nline 2"} :
            Begin("add_comment", [ticket_key |-> ticket_key, comment |-> comment], NoLocals,
                  add_comment_args(ticket_key), Some(comment))

add_comment_returns ==
    /\ Pending("add_comment", 1)
    /\ \E proc \in ProcOutcomes({""}, FailStderrs) :
        LET out == add_comment_result(req.params.ticket_key, Executed(proc))
        IN  Finish(proc, out, add_comment_tool_return(req.params.ticket_key, out))

assign_to_me_tool ==
    /\ pc = "idle"
    /\ \E ticket_key \in TicketKeys :
            Begin("assign_to_me", [ticket_key |-> ticket_key], [current_user |-> None],
                  <<"me">>, None)

\* The identity call of assign_to_me returns.
assign_to_me_me_returns ==
    /\ Pending("assign_to_me", 1)
    /\ \E proc \in ProcOutcomes({"john.doe@example.com\n", "", "  \n"}, FailStderrs) :
        LET ticket_key == req.params.ticket_key
            resolved == assign_to_me_resolved(Executed(proc))
        IN  IF resolved.kind = "raise"
            THEN Finish(proc, resolved, assign_to_me_tool_return(ticket_key, resolved))
            ELSE Continue(proc, [current_user |-> Some(resolved.value)],
                          assign_to_me_assign_args(ticket_key, resolved.value), None)

\* The assign command of assign_to_me returns.
assign_to_me_assign_returns ==
    /\ Pending("assign_to_me", 2)
    /\ \E proc \in ProcOutcomes({""}, FailStderrs) :
        LET ticket_key == req.params.ticket_key
            out == assign_to_me_result(ticket_key, locals.current_user[1], Executed(proc))
        IN  Finish(proc, out, assign_to_me_tool_return(ticket_key, out))

open_ticket_in_browser_tool ==
    /\ pc = "idle"
    /\ \E ticket_key \in TicketKeys :
            Begin("open_ticket_in_browser", [ticket_key |-> ticket_key], NoLocals,
                  <<"open", ticket_key>>, None)

open_ticket_in_browser_returns ==
    /\ Pending("open_ticket_in_browser", 1)
    /\ \E proc \in ProcOutcomes({""}, FailStderrs) :
        LET out == open_ticket_in_browser_result(req.params.ticket_key, Executed(proc))
        IN  Finish(proc, out,
                   open_ticket_in_browser_tool_return(req.params.ticket_key, out))

update_ticket_description_tool ==
    /\ pc = "idle"
    /\ \E ticket_key \in TicketKeys, description \in {"New description", ""} :
            Begin("update_ticket_description",
                  [ticket_key |-> ticket_key, description |-> description], NoLocals,
                  update_ticket_description_args(ticket_key), Some(description))

update_ticket_description_returns ==
    /\ Pending("update_ticket_description", 1)
    /\ \E proc \in ProcOutcomes({""}, FailStderrs) :
        LET out == update_ticket_description_result(req.params.ticket_key, Executed(proc))
        IN  Finish(proc, out,
                   update_ticket_description_tool_return(req.params.ticket_key, out))

list_sprints_tool ==
    /\ pc = "idle"
    /\ \E board_id \in {1, 42}, state \in {None, Some("active")}, limit \in {0, 20} :
            LET p == [board_id |-> board_id, state |-> state, limit |-> limit]
            IN  Begin("list_sprints", p, NoLocals, list_sprints_args(p), None)

list_sprints_returns ==
    /\ Pending("list_sprints", 1)
    /\ \E proc \in ProcOutcomes(
            {"",
             "1\tSprint 1\tactive\t2024-01-01\t2024-01-14\n2\tSprint 2\tfuture\n3\tNo state",
             "7\tSprint 7\tclosed\t2024-02-01\nx9\tBad id\tactive\n"},
            {"", "No result found", "Error: No Sprints in board", "no result found",
             "sprint not found"}) :
        LET out == list_sprints_result(Executed(proc))
        IN  Finish(proc, out, list_sprints_tool_return(out))

add_to_sprint_tool ==
    /\ pc = "idle"
    /\ \E ticket_key \in TicketKeys, sprint_id \in {7, 123} :
            Begin("add_to_sprint", [ticket_key |-> ticket_key, sprint_id |-> sprint_id],
                  NoLocals, add_to_sprint_args(ticket_key, sprint_id), None)

add_to_sprint_returns ==
    /\ Pending("add_to_sprint", 1)
    /\ \E proc \in ProcOutcomes({""}, FailStderrs) :
        LET out == add_to_sprint_result(req.params.ticket_key, req.params.sprint_id,
                                        Executed(proc))
        IN  Finish(proc, out, add_to_sprint_tool_return(req.params.ticket_key, out))

remove_from_sprint_tool ==
    /\ pc = "idle"
    /\ \E ticket_key \in TicketKeys :
            Begin("remove_from_sprint", [ticket_key |-> ticket_key], NoLocals,
                  remove_from_sprint_args(ticket_key), None)

remove_from_sprint_returns ==
    /\ Pending("remove_from_sprint", 1)
    /\ \E proc \in ProcOutcomes({""}, FailStderrs) :
        LET out == remove_from_sprint_result(req.params.ticket_key, Executed(proc))
        IN  Finish(proc, out, remove_from_sprint_tool_return(req.params.ticket_key, out))

edit_ticket_tool ==
    /\ pc = "idle"
    /\ \E p \in EditTicketInputs :
            LET updated_fields == edit_ticket_updated_fields(p)
                early == edit_ticket_early_return(p.ticket_key)
            IN  IF edit_ticket_no_fields(updated_fields)
                THEN BeginAndFinish("edit_ticket", p, [updated_fields |-> updated_fields],
                                    early, edit_ticket_tool_return(p.ticket_key, early))
                ELSE Begin("edit_ticket", p, [updated_fields |-> updated_fields],
                           edit_ticket_args(p), None)

edit_ticket_returns ==
    /\ Pending("edit_ticket", 1)
    /\ \E proc \in ProcOutcomes({""}, FailStderrs) :
        LET out == edit_ticket_result(req.params.ticket_key, locals.updated_fields,
                                      Executed(proc))
        IN  Finish(proc, out, edit_ticket_tool_return(req.params.ticket_key, out))

\* A server that keeps the local values of the finished invocation.
mcp_reply_keeping_locals ==
    /\ pc = "done"
    /\ pc' = "idle"
    /\ req' = NoRequest
    /\ invoked' = 0
    /\ calls' = <<>>
    /\ resps' = <<>>
    /\ outcome' = None
    /\ toolOut' = None
    /\ UNCHANGED <<JIRA_CLI_PATH, locals>>

\* The host takes the tool's string and the server waits for the next invocation:
\* nothing of the finished invocation is kept.
mcp_reply ==
    /\ pc = "done"
    /\ pc' = "idle"
    /\ req' = NoRequest
    /\ invoked' = 0
    /\ locals' = NoLocals
    /\ calls' = <<>>
    /\ resps' = <<>>
    /\ outcome' = None
    /\ toolOut' = None
    /\ UNCHANGED JIRA_CLI_PATH

Next ==
    \/ list_tickets_tool
    \/ list_tickets_returns
    \/ get_ticket_tool
    \/ get_ticket_returns
    \/ create_ticket_tool
    \/ create_ticket_returns
    \/ move_ticket_tool
    \/ move_ticket_view_returns
    \/ move_ticket_move_returns
    \/ add_comment_tool
    \/ add_comment_returns
    \/ assign_to_me_tool
    \/ assign_to_me_me_returns
    \/ assign_to_me_assign_returns
    \/ open_ticket_in_browser_tool
    \/ open_ticket_in_browser_returns
    \/ update_ticket_description_tool
    \/ update_ticket_description_returns
    \/ list_sprints_tool
    \/ list_sprints_returns
    \/ add_to_sprint_tool
    \/ add_to_sprint_returns
    \/ remove_from_sprint_tool
    \/ remove_from_sprint_returns
    \/ edit_ticket_tool
    \/ edit_ticket_returns
    \/ mcp_reply

Spec == Init /\ [][Next]_vars

-----------------------------------------------------------------------------
(* The pure functions on their own: each is applied to an argument drawn from a
   bounded set, and what it did is kept in outcome until the next application. *)

\* A node of a rich document: {"type": kind, **members}.
Node(kind, members) == JDict(("type" :> JStr(kind)) @@ members)

\* A text node with the marks of the given names.
Text(text, marks) ==
    Node("text", [text |-> JStr(text),
                  marks |-> JList([i \in 1..Len(marks) |-> Node(marks[i], <<>>)])])

\* The blocks the renderer is given.
\* The documents the renderer is given: one without a content list, every document
\* of one block, and the documents of at most MaxBlocks blocks of a few kinds.
AdfDocuments ==
    LET blocks ==
            LET P(c) == Node("paragraph", [content |-> JList(c)])
                H(n, c) == Node("heading", [attrs |-> JDict([level |-> JInt(n)]),
                                            content |-> JList(c)])
                Item(ps) == Node("listItem", [content |-> JList(ps)])
                Para(x) == P(<<Text(x, <<>>)>>)
                B(items) == Node("bulletList", [content |-> JList(items)])
                O(start, items) == Node("orderedList", [attrs |-> JDict([start |-> JInt(start)]),
                                                        content |-> JList(items)])
                Q(ps) == Node("blockquote", [content |-> JList(ps)])
                Code(lang, nodes) == Node("codeBlock", [attrs |-> JDict([language |-> JStr(lang)]),
                                                        content |-> JList(nodes)])
                mention == Node("mention", [text |-> JStr("@bob")])
                two == <<Item(<<Para("Item 1")>>), Item(<<Para("Item 2")>>)>>
                gap == <<Item(<<Para("Item 1")>>), Item(<<P(<<>>)>>), Item(<<Para("Item 2")>>)>>
            IN  {P(<<>>), Node("paragraph", <<>>), Para("Hello"), Para(""),
                 P(<<Text("Hello ", <<>>), Node("text", [text |-> JStr("World")])>>),
                 P(<<Node("text", <<>>)>>), P(<<mention>>),
                 P(<<Text("a", <<>>), mention, Text("b", <<>>)>>),
                 P(<<Text("Line 1", <<>>), Node("hardBreak", <<>>), Text("Line 2", <<>>)>>),
                 P(<<Text("a", <<"strong">>), Text("b", <<>>), Text("c", <<"em">>)>>),
                 P(<<Text("", <<"strong">>)>>)}
                \cup {P(<<Text("x", ms)>>) :
                        ms \in {<<"strong">>, <<"em">>, <<"code">>, <<"strike">>, <<"underline">>,
                                <<"strong", "em">>, <<"em", "strong">>,
                                <<"code", "strike", "strong">>, <<"em", "underline", "code">>}}
                \cup {H(n, <<Text("Title", <<>>)>>) : n \in 1..6}
                \cup {H(2, <<>>), Node("heading", [attrs |-> JDict([level |-> JInt(3)])]),
                      Node("heading", [content |-> JList(<<Text("Title", <<>>)>>)]),
                      Node("heading", [attrs |-> JDict(<<>>),
                                       content |-> JList(<<Text("Title", <<>>)>>)]),
                      H(3, <<Text("Bold", <<"strong">>), Text(" tail", <<>>)>>)}
                \cup {B(two), B(gap), B(<<>>), Node("bulletList", <<>>), B(<<Item(<<>>)>>),
                      B(<<Node("listItem", <<>>)>>), B(<<Item(<<Para("")>>)>>),
                      B(<<Item(<<Para("a"), Para("b")>>)>>),
                      B(<<Item(<<P(<<Text("x", <<"strong">>)>>)>>)>>),
                      B(<<Item(<<Code("", <<Text("y", <<>>)>>)>>)>>)}
                \cup {O(1, two), O(5, two), O(3, gap), O(1, <<>>),
                      Node("orderedList", [content |-> JList(two)]),
                      Node("orderedList", [attrs |-> JDict(<<>>), content |-> JList(two)]),
                      Node("orderedList", [attrs |-> JDict([start |-> JInt(9)])])}
                \cup {Code("python", <<Text("print(1)", <<>>)>>),
                      Code("", <<Text("a = 1\n", <<>>), Text("b = 2", <<>>)>>),
                      Node("codeBlock", [content |-> JList(<<Text("code", <<>>)>>)]),
                      Code("python", <<>>), Code("", <<>>), Node("codeBlock", <<>>)}
                \cup {Node("rule", <<>>)}
                \cup {Q(<<Para("Quote 1"), Para("Quote 2")>>), Q(<<>>), Q(<<P(<<>>)>>),
                      Node("blockquote", <<>>)}
                \cup {Node("panel", [content |-> JList(<<Para("Hello")>>)]), Node("table", <<>>),
                      JDict(<<>>)}
                \cup {Node("heading", [attrs |-> JNull, content |-> JList(<<Text("T", <<>>)>>)]),
                      Node("heading", [attrs |-> JDict([level |-> JStr("2")]),
                                       content |-> JList(<<Text("T", <<>>)>>)]),
                      Node("heading", [attrs |-> JDict([level |-> JStr("2")]),
                                       content |-> JList(<<>>)]),
                      Node("codeBlock", [attrs |-> JNull])}
        several ==
            {Node("paragraph", [content |-> JList(<<Text("Hello", <<>>)>>)]),
             Node("paragraph", [content |-> JList(<<Text("World", <<>>)>>)]),
             Node("heading", [attrs |-> JDict([level |-> JInt(2)]),
                              content |-> JList(<<Text("Title", <<>>)>>)]),
             Node("rule", <<>>), Node("table", <<>>), Node("paragraph", <<>>),
             Node("codeBlock", <<>>), Node("bulletList", <<>>)}
    IN  {Node("doc", <<>>)}
        \cup {Node("doc", [content |-> JList(<<b>>)]) : b \in blocks}
        \cup {Node("doc", [content |-> JList(bs)]) :
                bs \in UNION {[1..n -> several] : n \in 0..MaxBlocks}}

\* A renderer that reads block["attrs"], which raises when a block has no "attrs".
convert_adf_fault_missing_attrs(adf) ==
    LET blocks == ContentOf(adf)
        needy == {i \in 1..Len(blocks) :
                    /\ \/ IsType(blocks[i], "heading")
                       \/ IsType(blocks[i], "orderedList")
                       \/ IsType(blocks[i], "codeBlock")
                    /\ "attrs" \notin DOMAIN blocks[i].d}
    IN  IF needy = {} THEN None ELSE Some(Raise("KeyError", "'attrs'"))

\* What makes _convert_adf_to_text raise on adf: None, or <<the exception>> of the
\* first block whose "attrs" is null where it is read, or whose level is a string
\* where it multiplies "#".
convert_adf_fault(adf) ==
    LET blocks == ContentOf(adf)
        null_attrs(b) == "attrs" \in DOMAIN b.d /\ b.d["attrs"].t = "NoneType"
        fault(b) ==
            IF (IsType(b, "heading") \/ IsType(b, "orderedList") \/ IsType(b, "codeBlock"))
               /\ null_attrs(b)
            THEN Some(Raise("AttributeError", "'NoneType' object has no attribute 'get'"))
            ELSE IF /\ IsType(b, "heading")
                    /\ Len(ContentOf(b)) > 0
                    /\ DictGet(DictGet(b, "attrs", JDict(<<>>)), "level", JInt(1)).t = "str"
            THEN Some(Raise("TypeError", "can't multiply sequence by non-int of type 'str'"))
            ELSE None
        faulty == {i \in 1..Len(blocks) : fault(blocks[i]) # None}
    IN  IF faulty = {} THEN None
        ELSE fault(blocks[CHOOSE i \in faulty : \A j \in faulty : i <= j])

\* function is applied to params and does out.
Apply(function, params, out) ==
    /\ req' = [tool |-> function, params |-> params]
    /\ outcome' = Some(out)
    /\ pc' = "done"
    /\ UNCHANGED <<JIRA_CLI_PATH, invoked, locals, calls, resps, toolOut>>

\* normalize_status is given every key of the table as it stands, in upper case
\* and in its display form, and texts that are no key in any case.
normalize_status_applied ==
    /\ pc = "idle"
    /\ \E status \in
            DOMAIN COMMON_STATUS_MAP
            \cup {COMMON_STATUS_MAP[k] : k \in DOMAIN COMMON_STATUS_MAP}
            \cup {"OPEN", "IN PROGRESS", "IN REVIEW", "DONE", "CLOSED", "CANCELED", "TODO",
                  "TO DO", "BACKLOG", "BLOCKED", "READY FOR REVIEW", "READY FOR QA", "IN QA",
                  "DEPLOYED"}
            \cup {"", "Custom Status", "custom status", "My Special Status", " open", "open ",
                  "opened", "in  progress"} :
        Apply("normalize_status", [status |-> status], Return(normalize_status(status)))

_convert_adf_to_text_applied ==
    /\ pc = "idle"
    /\ \E adf \in AdfDocuments :
        Apply("_convert_adf_to_text", [adf |-> adf],
              IF convert_adf_fault(adf) # None THEN convert_adf_fault(adf)[1]
              ELSE Return(_convert_adf_to_text(adf)))

\* execute_jira_command_json is called, and subprocess.run does one of: the binary
\* is missing, the timeout runs out, the process exits with a code, a stdout that
\* is JSON or not, and a stderr.
execute_jira_command_json_applied ==
    /\ pc = "idle"
    /\ \E args \in {<<"me">>, <<"issue", "view", "TEST-123", "--raw">>},
          proc \in {FileNotFound, TimedOut}
                    \cup {Exited(stdout, stderr, returncode) :
                            stdout \in {CreatedJson, "{}", "[]", "", "not json"},
                            stderr \in {"", "Permission denied"},
                            returncode \in {0, 1, 2}} :
            Apply("execute_jira_command_json", [args |-> args, proc |-> proc],
                  execute_jira_command_json(args, proc))

PureNext ==
    \/ normalize_status_applied
    \/ _convert_adf_to_text_applied
    \/ execute_jira_command_json_applied
    \/ mcp_reply

PureSpec == Init /\ [][PureNext]_vars

\* The start of the server: main.py is imported with the environment that
\* dotenv.load_dotenv() leaves, here the two variables the import reads.
StartInit ==
    /\ JIRA_CLI_PATH \in {None, Some("/opt/jira/bin/jira")}
    /\ pc = "import"
    /\ req = NoRequest
    /\ invoked = 0
    /\ locals \in [JIRA_API_TOKEN : {None, Some(""), Some("token")},
                   JIRA_AUTH_TYPE : {None, Some(""), Some("bearer")}]
    /\ calls = <<>>
    /\ resps = <<>>
    /\ outcome = None
    /\ toolOut = None

\* An import that asks for JIRA_API_TOKEN only.
main_imported_token_only ==
    /\ pc = "import"
    /\ IF ~TruthyStr(locals.JIRA_API_TOKEN)
       THEN /\ pc' = "refused"
            /\ outcome' = Some(Raise("ValueError",
                    "JIRA_API_TOKEN and JIRA_AUTH_TYPE must be set for " \o BACKQUOTE
                    \o "jira-cli" \o BACKQUOTE \o ", the dependent tool this MCP server uses. "
                    \o "See README.md for instructions "
                    \o "to setup your Jira API key and authentication type."))
            /\ UNCHANGED locals
       ELSE /\ pc' = "idle"
            /\ locals' = NoLocals
            /\ UNCHANGED outcome
    /\ UNCHANGED <<JIRA_CLI_PATH, req, invoked, calls, resps, toolOut>>

\* The module-level statements of main.py up to the creation of mcp: the import
\* raises ValueError unless both variables are set and non-empty; otherwise the
\* tools are registered and the server waits for an invocation.
main_imported ==
    /\ pc = "import"
    /\ IF ~TruthyStr(locals.JIRA_API_TOKEN) \/ ~TruthyStr(locals.JIRA_AUTH_TYPE)
       THEN /\ pc' = "refused"
            /\ outcome' = Some(Raise("ValueError",
                    "JIRA_API_TOKEN and JIRA_AUTH_TYPE must be set for " \o BACKQUOTE
                    \o "jira-cli" \o BACKQUOTE \o ", the dependent tool this MCP server uses. "
                    \o "See README.md for instructions "
                    \o "to setup your Jira API key and authentication type."))
            /\ UNCHANGED locals
       ELSE /\ pc' = "idle"
            /\ locals' = NoLocals
            /\ UNCHANGED outcome
    /\ UNCHANGED <<JIRA_CLI_PATH, req, invoked, calls, resps, toolOut>>

StartNext ==
    \/ main_imported
    \/ Next

StartSpec == StartInit /\ [][StartNext]_vars

-----------------------------------------------------------------------------
(* Properties. *)

\* The values of a sequence.
Range(xs) == {xs[i] : i \in 1..Len(xs)}

\* The invocation at hand is of tool, and it has ended.
Done(tool) == pc = "done" /\ req.tool = tool

\* The last call of the invocation exited with a non-zero code.
LastExitedNonZero ==
    /\ Len(resps) > 0
    /\ resps[Len(resps)].kind = "exited"
    /\ resps[Len(resps)].returncode # 0

\* The last call of the invocation exited with code 0.
LastExitedZero ==
    /\ Len(resps) > 0
    /\ resps[Len(resps)].kind = "exited"
    /\ resps[Len(resps)].returncode = 0

\* None of edit_ticket's optional parameters is given.
NoOptionalField(p) ==
    /\ p.summary = None /\ p.priority = None /\ p.assignee = None
    /\ p.labels = None /\ p.add_labels = None /\ p.remove_labels = None
    /\ p.components = None /\ p.fix_versions = None /\ p.parent = None
    /\ p.custom_fields = None

\* C1: an edit_ticket invocation with no optional field given ends with a returned
\* result whose success is false and whose updated_fields is empty, and at no point
\* of that invocation is there a call of the executor, pending or answered.
C1_EditWithoutFields ==
    (req.tool = "edit_ticket" /\ NoOptionalField(req.params)) =>
        /\ pc = "done"
        /\ calls = <<>>
        /\ resps = <<>>
        /\ outcome # None
        /\ outcome[1].kind = "return"
        /\ outcome[1].value.success = FALSE
        /\ outcome[1].value.updated_fields = <<>>

C1_Witness ==
    /\ Done("edit_ticket")
    /\ NoOptionalField(req.params)
    /\ outcome = Some(Return([success |-> FALSE, ticket_key |-> "PROJ-7",
                              message |-> "No fields specified to update",
                              updated_fields |-> <<>>]))
    /\ toolOut = Some("No fields specified to update")

\* The status a lookup's stdout shows: its second tab-separated column when there
\* is one, else the whole of it, stripped; "Unknown" when it is empty.
ObservedStatus ==
    ("Open\n" :> "Open") @@ ("TEST-123\tOpen" :> "Open") @@ ("" :> "Unknown")
    @@ (" In Review \n" :> "In Review")

\* C2: a move_ticket invocation makes at most two executor calls, the first the
\* status lookup for the key, the second (made only after the lookup answered with
\* exit code 0) the transition with normalize_status(requested status); when it
\* returns a result it has made exactly these two calls, new_status is
\* normalize_status(requested status) and previous_status is the status the
\* lookup's answer showed.
C2_MoveTicketCalls ==
    req.tool = "move_ticket" =>
        LET key == req.params.ticket_key
            target == normalize_status(req.params.status)
        IN  /\ Len(calls) \in {1, 2}
            /\ calls[1].args = <<"issue", "list", "--jql", "key = " \o key, "--plain",
                                 "--no-headers", "--columns", "status">>
            /\ Len(calls) = 2 =>
                /\ resps[1].kind = "exited" /\ resps[1].returncode = 0
                /\ calls[2].args = <<"issue", "move", key, target>>
            /\ (outcome # None /\ outcome[1].kind = "return") =>
                /\ Len(calls) = 2
                /\ Len(resps) = 2
                /\ outcome[1].value.new_status = target
                /\ outcome[1].value.previous_status = ObservedStatus[resps[1].stdout]

C2_Witness ==
    /\ Done("move_ticket")
    /\ req.params = [ticket_key |-> "TEST-123", status |-> "in progress"]
    /\ resps[1].stdout = "TEST-123\tOpen"
    /\ calls[2].args = <<"issue", "move", "TEST-123", "In Progress">>
    /\ outcome[1].kind = "return"
    /\ outcome[1].value.previous_status = "Open"
    /\ outcome[1].value.new_status = "In Progress"

\* C3: when the executor's answer to list_tickets has a non-zero exit code,
\* list_tickets returns the empty list if stderr contains "No result found", and
\* otherwise raises an error whose text starts with "Failed to list tickets".
C3_ListTicketsNonZeroExit ==
    (Done("list_tickets") /\ LastExitedNonZero) =>
        IF Contains(resps[1].stderr, "No result found")
        THEN outcome = Some(Return(<<>>))
        ELSE /\ outcome[1].kind = "raise"
             /\ StartsWith(outcome[1].msg, "Failed to list tickets")

C3_Witness ==
    /\ Done("list_tickets")
    /\ resps[1] = Exited("", "Error: No result found for given query", 1)
    /\ outcome = Some(Return(<<>>))
    /\ toolOut = Some("No tickets found.")

\* C4 as stated: create_ticket returns, without raising, a result with
\* success=false whose error carries stderr when the exit code is not 0, and a
\* result with success=true when the exit code is 0.
C4_AsStated ==
    (Done("create_ticket") /\ resps[1].kind = "exited") =>
        /\ outcome[1].kind = "return"
        /\ IF resps[1].returncode # 0
           THEN /\ outcome[1].value.success = FALSE
                /\ Contains(outcome[1].value.error[1], resps[1].stderr)
           ELSE outcome[1].value.success = TRUE

\* C4: create_ticket never raises. On a non-zero exit code it returns a result
\* with success=false whose error is stderr ("Failed to create ticket" when
\* stderr is empty). On exit code 0 it returns success=true exactly when stdout is
\* the text of a JSON object, with that object's "key" and "self" as key and URL
\* ("" for one that is absent); for any other stdout it returns success=false with
\* an error that starts with "Failed to create ticket: ".
C4_CreateTicketResult ==
    (Done("create_ticket") /\ resps[1].kind = "exited") =>
        LET result == outcome[1].value
            stdout == resps[1].stdout
            stderr == resps[1].stderr
        IN  /\ outcome[1].kind = "return"
            /\ resps[1].returncode # 0 =>
                /\ result.success = FALSE
                /\ result.error = Some(IF stderr = "" THEN "Failed to create ticket"
                                       ELSE stderr)
            /\ resps[1].returncode = 0 =>
                /\ result.success = (stdout \in {CreatedJson, "{}"})
                /\ stdout = CreatedJson =>
                    /\ result.ticket_key = Some("TEST-456")
                    /\ result.ticket_url
                        = Some("https://jira.example.com/rest/api/2/issue/12345")
                /\ stdout = "{}" =>
                    result.ticket_key = Some("") /\ result.ticket_url = Some("")
                /\ ~result.success =>
                    StartsWith(result.error[1], "Failed to create ticket: ")

C4_Witness ==
    /\ Done("create_ticket")
    /\ resps[1] = Exited("", "Project not found", 1)
    /\ outcome = Some(Return([success |-> FALSE, ticket_key |-> None,
                              ticket_url |-> None, error |-> Some("Project not found")]))

\* The invocation ended on an operational fault: the binary was not found, or
\* (get_ticket, create_ticket) the stdout of a zero-exit answer is not JSON.
OperationalFault ==
    /\ pc = "done"
    /\ Len(resps) > 0
    /\ \/ resps[Len(resps)].kind = "FileNotFoundError"
       \/ /\ req.tool \in {"get_ticket", "create_ticket"}
          /\ LastExitedZero
          /\ json_loads(resps[1].stdout).kind = "raise"

\* The text of the error of a binary that was not found.
NotFoundText ==
    "jira-cli not found at path: "
    \o (IF JIRA_CLI_PATH = None THEN "jira" ELSE JIRA_CLI_PATH[1])
    \o ". Please install jira-cli or set JIRA_CLI_PATH environment variable."

\* The text of the fault the invocation ended on.
FaultText ==
    IF resps[Len(resps)].kind = "FileNotFoundError" THEN NotFoundText
    ELSE json_loads(resps[1].stdout).msg

C6_ToolReturnsString ==
    pc = "done" =>
        /\ toolOut # None
        /\ toolOut[1] \in STRING
        /\ invoked = 1
        /\ outcome[1].kind = "raise" =>
            /\ StartsWith(toolOut[1], "Error ")
            /\ Contains(toolOut[1], outcome[1].msg)

C6_Witness ==
    /\ Done("get_ticket")
    /\ resps = <<Exited("", "Permission denied", 1)>>
    /\ outcome[1].kind = "raise"
    /\ invoked = 1
    /\ toolOut = Some("Error getting ticket TEST-123: Failed to get ticket TEST-123: "
                      \o "Permission denied")

\* C7: whenever the raw jql is non-empty, the query list_tickets builds is the raw
\* jql itself, whatever the other six parameters are.
C7_RawJqlVerbatim ==
    (req.tool = "list_tickets" /\ TruthyStr(req.params.jql)) =>
        locals.built_jql = req.params.jql

C7_Witness ==
    /\ req.tool = "list_tickets"
    /\ req.params.jql = Some("project = TEST")
    /\ req.params.assigned_to_me = Some(TRUE)
    /\ req.params.status = Some("in progress")
    /\ req.params.updated_recently = Some(TRUE)
    /\ locals.built_jql = Some("project = TEST")

\* The clauses of the parameters p in the fixed order assignee, status, project,
\* created, updated, each with whether its parameter is truthy.
ClauseTable(p) ==
    <<[on |-> TruthyBool(p.assigned_to_me) \/ TruthyBool(p.unassigned),
       text |-> IF TruthyBool(p.assigned_to_me) THEN "assignee = currentUser()"
                ELSE "assignee is EMPTY"],
      [on |-> TruthyStr(p.status),
       text |-> IF p.status = None THEN ""
                ELSE "status = \"" \o normalize_status(p.status[1]) \o "\""],
      [on |-> TruthyStr(p.project),
       text |-> IF p.project = None THEN "" ELSE "project = " \o p.project[1]],
      [on |-> TruthyBool(p.created_recently), text |-> "created >= -7d"],
      [on |-> TruthyBool(p.updated_recently), text |-> "updated >= -7d"]>>

ClauseOn(c) == c.on

RECURSIVE JoinedWithAnd(_)
JoinedWithAnd(clauses) ==
    IF Len(clauses) = 1 THEN clauses[1].text
    ELSE clauses[1].text \o " AND " \o JoinedWithAnd(Tail(clauses))

\* C8: with an empty raw jql, the built query is the clauses whose parameter is
\* truthy, in the order assignee, status, project, created, updated, joined by
\* " AND "; the status clause quotes normalize_status(status) and the project
\* clause gives the project unquoted.
C8_ClauseOrder ==
    (req.tool = "list_tickets" /\ ~TruthyStr(req.params.jql)) =>
        LET present == SelectSeq(ClauseTable(req.params), ClauseOn)
        IN  IF Len(present) = 0 THEN locals.built_jql = None
            ELSE locals.built_jql = Some(JoinedWithAnd(present))

C8_Witness ==
    /\ req.tool = "list_tickets"
    /\ req.params.jql = None
    /\ locals.built_jql
        = Some("assignee = currentUser() AND status = \"In Progress\" AND "
               \o "project = TEST AND created >= -7d AND updated >= -7d")

\* The number of places of q where an assignee clause starts.
AssigneeClauses(q) ==
    Cardinality({i \in 1..(Len(q) - 8) : SubSeq(q, i, i + 8) = "assignee "})

\* C9: with an empty raw jql, when assigned_to_me and unassigned are both true the
\* built query holds the clause "assignee = currentUser()" and not the clause
\* "assignee is EMPTY"; and every query built from an empty raw jql holds at most
\* one assignee clause.
C9_AssignedToMeWins ==
    (req.tool = "list_tickets" /\ ~TruthyStr(req.params.jql)) =>
        /\ (TruthyBool(req.params.assigned_to_me) /\ TruthyBool(req.params.unassigned)) =>
            /\ locals.built_jql # None
            /\ Contains(locals.built_jql[1], "assignee = currentUser()")
            /\ ~Contains(locals.built_jql[1], "assignee is EMPTY")
        /\ locals.built_jql # None => AssigneeClauses(locals.built_jql[1]) <= 1

C9_Witness ==
    /\ req.tool = "list_tickets"
    /\ req.params.jql = Some("")
    /\ req.params.assigned_to_me = Some(TRUE)
    /\ req.params.unassigned = Some(TRUE)
    /\ req.params.project = Some("TEST")
    /\ locals.built_jql = Some("assignee = currentUser() AND project = TEST")

\* No clause condition of the parameters p holds.
NoClause(p) ==
    /\ ~TruthyBool(p.assigned_to_me) /\ ~TruthyBool(p.unassigned)
    /\ ~TruthyStr(p.status) /\ ~TruthyStr(p.project)
    /\ ~TruthyBool(p.created_recently) /\ ~TruthyBool(p.updated_recently)

\* C10: the built query is None exactly when the raw jql is empty and no clause
\* condition holds; and list_tickets' call of the executor carries "--jql",
\* followed by the built query, exactly when the built query is non-empty.
C10_NoFilterNoFlag ==
    req.tool = "list_tickets" =>
        /\ locals.built_jql = None
            <=> (~TruthyStr(req.params.jql) /\ NoClause(req.params))
        /\ Len(calls) = 1
        /\ "--jql" \in Range(calls[1].args) <=> TruthyStr(locals.built_jql)
        /\ TruthyStr(locals.built_jql) =>
            \E i \in 1..(Len(calls[1].args) - 1) :
                /\ calls[1].args[i] = "--jql"
                /\ calls[1].args[i + 1] = locals.built_jql[1]

C10_Witness ==
    /\ req.tool = "list_tickets"
    /\ req.params.jql = Some("")
    /\ req.params.assigned_to_me = Some(FALSE)
    /\ req.params.status = Some("")
    /\ locals.built_jql = None
    /\ calls = <<[args |-> <<"issue", "list", "--no-headers", "--plain", "--columns",
                              "key,summary,status,priority,type,assignee", "--paginate",
                              "0:20">>,
                  stdin |-> None]>>

\* The invocation at hand is an application of function, and it has ended.
Applied(function) == pc = "done" /\ req.tool = function

RECURSIVE upper(_)
\* s in upper case
upper(s) ==
    IF Len(s) = 0 THEN ""
    ELSE LET c == SubSeq(s, 1, 1)
             i == FindFrom("abcdefghijklmnopqrstuvwxyz", c, 1)
         IN  (IF i = 0 THEN c ELSE SubSeq("ABCDEFGHIJKLMNOPQRSTUVWXYZ", i, i))
             \o upper(SubSeq(s, 2, Len(s)))

\* C11: normalize_status of a text that is, in lower case, a key of the table (the
\* key itself, the key in upper case, its display name) is the key's display
\* name; of any other text, the empty one included, it is the text itself.
C11_NormalizeStatus ==
    Applied("normalize_status") =>
        LET status == req.params.status
            keys == {k \in DOMAIN COMMON_STATUS_MAP :
                        status \in {k, upper(k), COMMON_STATUS_MAP[k]}}
        IN  /\ outcome[1].kind = "return"
            /\ \A k \in keys : outcome[1].value = COMMON_STATUS_MAP[k]
            /\ keys = {} => outcome[1].value = status
            /\ status = "" => outcome[1].value = ""
            /\ status = "IN PROGRESS" => outcome[1].value = "In Progress"
            /\ status = "todo" => outcome[1].value = "To Do"

C11_Witness ==
    /\ Applied("normalize_status")
    /\ req.params.status = "READY FOR QA"
    /\ outcome = Some(Return("Ready for QA"))

\* The blocks of the document the renderer was applied to.
BlocksOf(adf) == IF "content" \in DOMAIN adf.d THEN adf.d["content"].l ELSE <<>>

\* The kind of a node, "" when it has none.
KindOf(node) == IF "type" \in DOMAIN node.d THEN node.d["type"].s ELSE ""

\* The node has no content list, or an empty one.
ContentLess(node) == "content" \notin DOMAIN node.d \/ node.d["content"].l = <<>>

\* The document of the given blocks, and the blocks the properties name.
DocOf(blocks) == Node("doc", [content |-> JList(blocks)])
ParagraphOf(nodes) == Node("paragraph", [content |-> JList(nodes)])
ItemOf(text) ==
    Node("listItem", [content |-> JList(<<ParagraphOf(<<Text(text, <<>>)>>)>>)])
EmptyItem == Node("listItem", [content |-> JList(<<ParagraphOf(<<>>)>>)])

\* The renderer was applied to adf and returned text.
Rendered(adf, text) ==
    /\ Applied("_convert_adf_to_text")
    /\ req.params.adf = adf
    /\ outcome = Some(Return(text))

\* C12 as stated: a document all of whose blocks are paragraphs, headings, lists,
\* blockquotes or codeBlocks without content renders to the empty string.
C12_AsStated ==
    (/\ Applied("_convert_adf_to_text")
     /\ outcome[1].kind = "return"
     /\ \A i \in 1..Len(BlocksOf(req.params.adf)) :
            LET b == BlocksOf(req.params.adf)[i]
            IN  /\ KindOf(b) \in {"paragraph", "heading", "bulletList", "orderedList",
                                  "blockquote", "codeBlock"}
                /\ ContentLess(b))
        => outcome[1].value = ""

\* The document of one codeBlock without content renders as an empty fence.
C12_Witness ==
    Rendered(DocOf(<<Node("codeBlock", <<>>)>>), FENCE \o "\n\n" \o FENCE)

\* The block's "attrs", where present, is a dict whose "level" is no string.
WellTypedBlock(b) ==
    "attrs" \in DOMAIN b.d =>
        /\ b.d["attrs"].t = "dict"
        /\ "level" \in DOMAIN b.d["attrs"].d => b.d["attrs"].d["level"].t = "int"

WellTyped(adf) == \A i \in 1..Len(BlocksOf(adf)) : WellTypedBlock(BlocksOf(adf)[i])

KnownBlock(b) ==
    KindOf(b) \in {"paragraph", "heading", "bulletList", "orderedList", "codeBlock",
                   "rule", "blockquote"}

RECURSIVE Fragments(_)
\* The non-empty renderings of the blocks, each rendered as a document of its own.
Fragments(blocks) ==
    IF Len(blocks) = 0 THEN <<>>
    ELSE LET fragment == _convert_adf_to_text(DocOf(<<blocks[1]>>))
         IN  (IF fragment = "" THEN <<>> ELSE <<fragment>>) \o Fragments(Tail(blocks))

RECURSIVE SeparatedByBlankLine(_)
SeparatedByBlankLine(fragments) ==
    IF Len(fragments) = 0 THEN ""
    ELSE IF Len(fragments) = 1 THEN fragments[1]
    ELSE fragments[1] \o "\n\n" \o SeparatedByBlankLine(Tail(fragments))

\* C14: the text the renderer returns is the fragments of the top-level blocks, in
\* document order, with exactly one blank line ("\n\n") between two fragments and
\* nothing before the first or after the last.
C14_BlankLineBetweenFragments ==
    (Applied("_convert_adf_to_text") /\ outcome[1].kind = "return") =>
        LET adf == req.params.adf
            hello == ParagraphOf(<<Text("Hello", <<>>)>>)
            world == ParagraphOf(<<Text("World", <<>>)>>)
            rule == Node("rule", <<>>)
        IN  /\ outcome[1].value = SeparatedByBlankLine(Fragments(BlocksOf(adf)))
            /\ adf = DocOf(<<hello, world>>) => outcome[1].value = "Hello\n\nWorld"
            /\ adf = DocOf(<<world, hello>>) => outcome[1].value = "World\n\nHello"
            /\ adf = DocOf(<<hello, rule>>) => outcome[1].value = "Hello\n\n---"
            /\ adf \in {DocOf(<<Node("paragraph", <<>>), hello>>),
                        DocOf(<<hello, Node("paragraph", <<>>)>>),
                        DocOf(<<hello, Node("table", <<>>)>>),
                        DocOf(<<hello>>)}
                => outcome[1].value = "Hello"

C14_Witness ==
    Rendered(DocOf(<<ParagraphOf(<<Text("Hello", <<>>)>>),
                     ParagraphOf(<<Text("World", <<>>)>>)>>),
             "Hello\n\nWorld")

\* The heading of a level and inline nodes.
HeadingOf(level, nodes) ==
    Node("heading", [attrs |-> JDict([level |-> JInt(level)]), content |-> JList(nodes)])

\* C15: a heading of level n in 1..6 with the text "Title" renders n "#"
\* characters, one space and the text; marked text keeps its markers.
C15_HeadingPrefix ==
    Applied("_convert_adf_to_text") =>
        LET adf == req.params.adf
            hashes == <<"#", "##", "###", "####", "#####", "######">>
        IN  /\ \A n \in 1..6 :
                    adf = DocOf(<<HeadingOf(n, <<Text("Title", <<>>)>>)>>)
                        => outcome = Some(Return(hashes[n] \o " Title"))
            /\ adf = DocOf(<<HeadingOf(3, <<Text("Bold", <<"strong">>), Text(" tail", <<>>)>>)>>)
                    => outcome = Some(Return("### **Bold** tail"))

C15_Witness ==
    Rendered(DocOf(<<HeadingOf(6, <<Text("Title", <<>>)>>)>>), "###### Title")

\* The paragraph of the one text node "x" with the marks.
Marked(marks) == DocOf(<<ParagraphOf(<<Text("x", marks)>>)>>)

\* C16: every mark of a text node wraps the node's text (strong in "**", em in
\* "*", code in one backquote, strike in "~~"), in list order with the first mark
\* innermost, and the text of the other nodes of the paragraph is left as it is.
C16_MarksInListOrder ==
    Applied("_convert_adf_to_text") =>
        LET adf == req.params.adf
            Is(marks, text) == adf = Marked(marks) => outcome = Some(Return(text))
        IN  /\ Is(<<"strong">>, "**x**")
            /\ Is(<<"em">>, "*x*")
            /\ Is(<<"code">>, BACKQUOTE \o "x" \o BACKQUOTE)
            /\ Is(<<"strike">>, "~~x~~")
            /\ Is(<<"strong", "em">>, "***x***")
            /\ Is(<<"code", "strike", "strong">>,
                  "**~~" \o BACKQUOTE \o "x" \o BACKQUOTE \o "~~**")
            /\ Is(<<"em", "underline", "code">>, BACKQUOTE \o "*x*" \o BACKQUOTE)
            /\ adf = DocOf(<<ParagraphOf(<<Text("a", <<"strong">>), Text("b", <<>>),
                                           Text("c", <<"em">>)>>)>>)
                    => outcome = Some(Return("**a**b*c*"))

C16_Witness ==
    Rendered(Marked(<<"code", "strike", "strong">>),
             "**~~" \o BACKQUOTE \o "x" \o BACKQUOTE \o "~~**")

\* The orderedList that starts at start, and the bulletList, of the items.
OrderedListOf(start, items) ==
    Node("orderedList", [attrs |-> JDict([start |-> JInt(start)]), content |-> JList(items)])
BulletListOf(items) == Node("bulletList", [content |-> JList(items)])

\* C17: the item at 0-based position i of an orderedList that starts at s renders
\* as the decimal s+i, ". " and the item's text; items are separated by one
\* newline, and an item without text leaves the numbers of the others alone.
C17_OrderedListNumbers ==
    Applied("_convert_adf_to_text") =>
        LET adf == req.params.adf
            two == <<ItemOf("Item 1"), ItemOf("Item 2")>>
            gap == <<ItemOf("Item 1"), EmptyItem, ItemOf("Item 2")>>
        IN  /\ adf = DocOf(<<OrderedListOf(1, two)>>)
                => outcome = Some(Return("1. Item 1\n2. Item 2"))
            /\ adf = DocOf(<<OrderedListOf(5, two)>>)
                => outcome = Some(Return("5. Item 1\n6. Item 2"))
            /\ adf = DocOf(<<OrderedListOf(3, gap)>>)
                => outcome = Some(Return("3. Item 1\n5. Item 2"))
            /\ adf = DocOf(<<OrderedListOf(1, <<>>)>>) => outcome = Some(Return(""))

C17_Witness ==
    Rendered(DocOf(<<OrderedListOf(3, <<ItemOf("Item 1"), EmptyItem, ItemOf("Item 2")>>)>>),
             "3. Item 1\n5. Item 2")

\* C18: every item of a bulletList renders as "- " and the inline rendering of
\* its paragraphs, one line per item, the lines separated by one newline.
C18_BulletListItems ==
    Applied("_convert_adf_to_text") =>
        LET adf == req.params.adf
            strong == Node("listItem",
                           [content |-> JList(<<ParagraphOf(<<Text("x", <<"strong">>)>>)>>)])
        IN  /\ adf = DocOf(<<BulletListOf(<<ItemOf("Item 1"), ItemOf("Item 2")>>)>>)
                => outcome = Some(Return("- Item 1\n- Item 2"))
            /\ adf = DocOf(<<BulletListOf(<<ItemOf("Item 1"), EmptyItem, ItemOf("Item 2")>>)>>)
                => outcome = Some(Return("- Item 1\n- Item 2"))
            /\ adf = DocOf(<<BulletListOf(<<strong>>)>>) => outcome = Some(Return("- **x**"))
            /\ adf = DocOf(<<BulletListOf(<<ItemOf("")>>)>>) => outcome = Some(Return("- "))
            /\ adf = DocOf(<<BulletListOf(<<>>)>>) => outcome = Some(Return(""))

C18_Witness ==
    Rendered(DocOf(<<BulletListOf(<<ItemOf("Item 1"), ItemOf("Item 2")>>)>>),
             "- Item 1\n- Item 2")

\* The "fields" of the ticket jira-cli answered get_ticket with.
AnsweredFields == DictGet(json_loads(resps[1].stdout).value, "fields", JDict(<<>>))

\* get_ticket returned a ticket for an answer that is a JSON object.
TicketReturned ==
    /\ Done("get_ticket")
    /\ outcome[1].kind = "return"
    /\ LastExitedZero

\* C19 as stated: get_ticket reports a description, and each comment body, that
\* is a rich document by its rendering, and one that is a plain string unchanged.
C19_AsStated ==
    TicketReturned =>
        LET fields == AnsweredFields
            comments == DictGet(DictGet(fields, "comment", JDict(<<>>)), "comments",
                                JList(<<>>)).l
            ticket == outcome[1].value
        IN  /\ "description" \in DOMAIN fields.d =>
                LET description == fields.d["description"]
                IN  /\ description.t = "dict"
                        => ticket.description = Some(_convert_adf_to_text(description))
                    /\ description.t = "str" => ticket.description = Some(description.s)
            /\ Len(ticket.comments) = Len(comments)
            /\ \A i \in 1..Len(comments) :
                    LET body == comments[i].d["body"]
                    IN  /\ body.t = "dict"
                            => ticket.comments[i].body = _convert_adf_to_text(body)
                        /\ body.t = "str" => ticket.comments[i].body = body.s

\* The ticket whose description and comment are plain strings is reported with
\* the comment as it is and with an empty description.
C19_Witness ==
    /\ TicketReturned
    /\ resps[1].stdout = PlainTicketJson
    /\ AnsweredFields.d["description"] = JStr("Plain description")
    /\ outcome[1].value.description = Some("")
    /\ outcome[1].value.comments[1].body = "Plain comment"

\* C20: list_tickets on an answer with exit code 0 returns one ticket for every
\* line of at least 5 columns, in the order of the lines, with key, summary,
\* status, priority and type from columns 1 to 5; a line of fewer columns gives no
\* ticket, and the assignee is None when there is no sixth column. A column is a
\* non-blank cell between tabs, stripped.
C20_TicketRows ==
    (Done("list_tickets") /\ LastExitedZero) =>
        LET stdout == resps[1].stdout
            Is(text, rows) == stdout = text => outcome = Some(Return(rows))
        IN  /\ outcome[1].kind = "return"
            /\ Is("", <<>>)
            /\ Is("TEST-1\tTest ticket 1\tOpen\tHigh\tBug\tJohn Doe\nTEST-2\tTest ticket 2\tDone\tMedium\tStory\t",
                  <<JiraTicket("TEST-1", "Test ticket 1", "Open", "High", "Bug", Some("John Doe")),
                    JiraTicket("TEST-2", "Test ticket 2", "Done", "Medium", "Story", None)>>)
            /\ Is("TEST-3\tShort row\tOpen\n\nTEST-4\tFull row\tOpen\tLow\tTask\n",
                  <<JiraTicket("TEST-4", "Full row", "Open", "Low", "Task", None)>>)
            /\ Is("TEST-5\tPadded row\t\tOpen\tLow\tTask\tJane Roe\nTEST-6\tFour cells\tOpen\t \tBug",
                  <<JiraTicket("TEST-5", "Padded row", "Open", "Low", "Task", Some("Jane Roe"))>>)

C20_Witness ==
    /\ Done("list_tickets")
    /\ LastExitedZero
    /\ resps[1].stdout = "TEST-3\tShort row\tOpen\n\nTEST-4\tFull row\tOpen\tLow\tTask\n"
    /\ outcome = Some(Return(<<JiraTicket("TEST-4", "Full row", "Open", "Low", "Task", None)>>))

\* The answers list_sprints is given: rows of five, three and two columns, and a
\* row of three columns whose first column is no number.
SprintRowsText == "1\tSprint 1\tactive\t2024-01-01\t2024-01-14\n2\tSprint 2\tfuture\n3\tNo state"
BadIdRowsText == "7\tSprint 7\tclosed\t2024-02-01\nx9\tBad id\tactive\n"

\* list_sprints on a non-zero exit: an empty list when stderr holds "No result
\* found" or, in any case, "no sprints"; a ValueError with stderr otherwise.
SprintsNonZeroExit ==
    (Done("list_sprints") /\ LastExitedNonZero) =>
        LET stderr == resps[1].stderr
        IN  IF stderr \in {"No result found", "Error: No Sprints in board"}
            THEN outcome = Some(Return(ListSprintsResult(<<>>)))
            ELSE /\ stderr \in {"", "no result found", "sprint not found", "Permission denied"}
                 /\ outcome = Some(Raise("ValueError", "Failed to list sprints: " \o stderr))

\* C21 as stated: on exit code 0 list_sprints returns one Sprint for every line of
\* at least 3 columns (and the non-zero exits are as SprintsNonZeroExit says).
C21_AsStated ==
    /\ SprintsNonZeroExit
    /\ (Done("list_sprints") /\ LastExitedZero) =>
            /\ outcome[1].kind = "return"
            /\ resps[1].stdout = "" => Len(outcome[1].value.sprints) = 0
            /\ resps[1].stdout = SprintRowsText => Len(outcome[1].value.sprints) = 2
            /\ resps[1].stdout = BadIdRowsText => Len(outcome[1].value.sprints) = 2

\* C21: list_sprints on a non-zero exit returns an empty list when stderr holds
\* "No result found" or, in any case, "no sprints", and raises otherwise; on exit
\* code 0 it returns one Sprint for every line of at least 3 columns, with
\* start_date and end_date None when the fourth and fifth columns are missing,
\* provided the first column of each such line is a number; it raises ValueError
\* when one is not.
C21_ListSprints ==
    /\ SprintsNonZeroExit
    /\ (Done("list_sprints") /\ LastExitedZero) =>
            /\ resps[1].stdout = "" => outcome = Some(Return(ListSprintsResult(<<>>)))
            /\ resps[1].stdout = SprintRowsText =>
                    outcome = Some(Return(ListSprintsResult(
                        <<Sprint(1, "Sprint 1", "active", Some("2024-01-01"), Some("2024-01-14")),
                          Sprint(2, "Sprint 2", "future", None, None)>>)))
            /\ resps[1].stdout = BadIdRowsText =>
                    outcome = Some(Raise("ValueError",
                                         "invalid literal for int() with base 10: 'x9'"))

C21_Witness ==
    /\ Done("list_sprints")
    /\ LastExitedZero
    /\ resps[1].stdout = SprintRowsText
    /\ Len(outcome[1].value.sprints) = 2
    /\ outcome[1].value.sprints[2].start_date = None

\* C22: assign_to_me first calls "me" and assigns only afterwards; when the
\* identity call exits non-zero, or exits 0 with an empty or whitespace-only
\* stdout, the invocation raises ValueError and has made no second call; the
\* assign command names the identity the first call printed, and so does the
\* assignee of a returned result.
C22_AssignToMe ==
    req.tool = "assign_to_me" =>
        LET key == req.params.ticket_key
            identified == /\ resps[1].kind = "exited"
                          /\ resps[1].returncode = 0
                          /\ resps[1].stdout = "john.doe@example.com\n"
        IN  /\ Len(calls) \in {1, 2}
            /\ calls[1].args = <<"me">>
            /\ Len(calls) = 2 =>
                /\ identified
                /\ calls[2].args = <<"issue", "assign", key, "john.doe@example.com">>
            /\ (Len(resps) >= 1 /\ resps[1].kind = "exited" /\ ~identified) =>
                /\ resps[1].returncode # 0 \/ resps[1].stdout \in {"", "  \n"}
                /\ Len(calls) = 1
                /\ pc = "done"
                /\ outcome[1].kind = "raise"
                /\ outcome[1].exc = "ValueError"
                /\ resps[1].returncode = 0
                    => outcome[1].msg = "Unable to determine current user"
            /\ (outcome # None /\ outcome[1].kind = "return") =>
                /\ Len(calls) = 2
                /\ Len(resps) = 2
                /\ resps[2].kind = "exited" /\ resps[2].returncode = 0
                /\ outcome[1].value.assignee = "john.doe@example.com"
                /\ outcome[1].value.ticket_key = key

C22_Witness ==
    /\ Done("assign_to_me")
    /\ resps = <<Exited("  \n", "", 0)>>
    /\ Len(calls) = 1
    /\ outcome = Some(Raise("ValueError", "Unable to determine current user"))

\* C23: execute_jira_command_json raises ValueError "jira command failed: " and
\* stderr whenever the exit code is not 0, whatever stdout holds; on exit code 0
\* it returns the JSON value of stdout, or raises ValueError "Failed to parse
\* jira output as JSON: " and stdout when stdout is no JSON.
C23_JsonExecutor ==
    (Applied("execute_jira_command_json") /\ req.params.proc.kind = "exited") =>
        LET proc == req.params.proc
        IN  /\ proc.returncode # 0
                => outcome = Some(Raise("ValueError", "jira command failed: " \o proc.stderr))
            /\ (proc.returncode = 0 /\ proc.stdout \in {"", "not json"})
                => outcome = Some(Raise("ValueError",
                                        "Failed to parse jira output as JSON: " \o proc.stdout))
            /\ (proc.returncode = 0 /\ proc.stdout = "{}") => outcome = Some(Return(JDict(<<>>)))
            /\ (proc.returncode = 0 /\ proc.stdout = "[]") => outcome = Some(Return(JList(<<>>)))
            /\ (proc.returncode = 0 /\ proc.stdout = CreatedJson)
                => /\ outcome[1].kind = "return"
                   /\ outcome[1].value.d["key"] = JStr("TEST-456")

C23_Witness ==
    /\ Applied("execute_jira_command_json")
    /\ req.params.proc = Exited("{}", "Permission denied", 1)
    /\ outcome = Some(Raise("ValueError", "jira command failed: Permission denied"))

\* The i-th process of the invocation did not exit with code 0.
Failed(i) == resps[i].kind # "exited" \/ resps[i].returncode # 0

\* C24: every call of execute_jira_command runs the process once: there is one
\* process outcome for each call that has returned and none for the pending one,
\* and a process that timed out, was not found or exited with a non-zero code is
\* the last of its invocation, which has ended; a timeout and a missing binary
\* reach the operation function as the raised error.
C24_OneSpawnPerCall ==
    /\ pc = "idle" => Len(calls) = 0 /\ Len(resps) = 0
    /\ pc = "exec" => Len(calls) = Len(resps) + 1
    /\ pc = "done" => Len(calls) = Len(resps)
    /\ \A i \in 1..Len(resps) :
            Failed(i) =>
                /\ i = Len(calls)
                /\ pc = "done"
                /\ (resps[i].kind # "exited" /\ req.tool # "create_ticket")
                    => outcome[1].kind = "raise" /\ outcome[1].exc = resps[i].kind
                /\ (resps[i].kind # "exited" /\ req.tool = "create_ticket")
                    => outcome[1].kind = "return" /\ ~outcome[1].value.success

C24_Witness ==
    /\ Done("add_comment")
    /\ resps = <<TimedOut>>
    /\ Len(calls) = 1
    /\ outcome[1].kind = "raise"
    /\ outcome[1].exc = "TimeoutExpired"

\* C25 as stated: every tool invocation that has ended made one or two executor
\* calls.
C25_AsStated == (pc = "done" /\ req.tool # "none") => Len(calls) \in {1, 2}

\* C25: a tool invocation makes at most two executor calls, and a call is issued
\* only when every earlier call of the invocation has returned; an invocation
\* that has ended made no call only if it is an edit_ticket, and two calls only if
\* it is a move_ticket or an assign_to_me.
C25_SequentialCalls ==
    /\ [](/\ Len(calls) <= 2
          /\ (pc = "done" /\ Len(calls) = 0) => req.tool = "edit_ticket"
          /\ Len(calls) = 2 => req.tool \in {"move_ticket", "assign_to_me"})
    /\ [][Len(calls') > Len(calls) =>
            /\ Len(calls') = Len(calls) + 1
            /\ Len(resps') = Len(calls)]_vars

C25_Witness ==
    /\ pc = "exec"
    /\ req.tool = "assign_to_me"
    /\ Len(calls) = 2
    /\ resps = <<Exited("john.doe@example.com\n", "", 0)>>

\* The flag is at some place of args, followed by value.
Sent(args, flag, value) ==
    \E i \in 1..(Len(args) - 1) : args[i] = flag /\ args[i + 1] = value

\* The logical fields of edit_ticket in their fixed order, each with whether the
\* command carries a flag for it.
FieldTable(p, args) ==
    <<[name |-> "summary", on |-> \E i \in 1..Len(args) : args[i] = "--summary"],
      [name |-> "priority", on |-> \E i \in 1..Len(args) : args[i] = "--priority"],
      [name |-> "assignee", on |-> \E i \in 1..Len(args) : args[i] = "--assignee"],
      [name |-> "labels", on |-> Sent(args, "--label", "bug")],
      [name |-> "labels (added)", on |-> Sent(args, "--label", "+urgent")],
      [name |-> "labels (removed)", on |-> Sent(args, "--label", "-stale")],
      [name |-> "components", on |-> \E i \in 1..Len(args) : args[i] = "--component"],
      [name |-> "fix_versions", on |-> \E i \in 1..Len(args) : args[i] = "--fix-version"],
      [name |-> "parent", on |-> \E i \in 1..Len(args) : args[i] = "--parent"],
      [name |-> "custom:team", on |-> Sent(args, "--custom", "team=core")],
      [name |-> "custom:points", on |-> Sent(args, "--custom", "points=3")]>>

FieldOn(f) == f.on

RECURSIVE FieldNames(_)
FieldNames(fields) ==
    IF Len(fields) = 0 THEN <<>> ELSE <<fields[1].name>> \o FieldNames(Tail(fields))

\* C26: an edit_ticket whose command exited with code 0 returns success = TRUE
\* and, as updated_fields, the fields the command carries a flag for, in the order
\* summary, priority, assignee, labels, labels (added), labels (removed),
\* components, fix_versions, parent, custom:<key>; an assignee given as "" is an
\* edit of its own, is sent as "--assignee x" and is listed as "assignee".
C26_UpdatedFields ==
    req.tool = "edit_ticket" =>
        LET p == req.params
        IN  /\ (pc = "done" /\ LastExitedZero) =>
                /\ outcome[1].kind = "return"
                /\ outcome[1].value.success = TRUE
                /\ outcome[1].value.ticket_key = p.ticket_key
                /\ Len(outcome[1].value.updated_fields) > 0
                /\ outcome[1].value.updated_fields
                    = FieldNames(SelectSeq(FieldTable(p, calls[1].args), FieldOn))
            /\ p.assignee = Some("") =>
                /\ Len(calls) = 1
                /\ Sent(calls[1].args, "--assignee", "x")
                /\ (pc = "done" /\ LastExitedZero) =>
                    outcome[1].value.updated_fields
                        = (IF p.priority = None THEN <<>> ELSE <<"priority">>)
                          \o <<"assignee">>
            /\ (p.summary # None /\ p.summary # Some(""))
                => Sent(calls[1].args, "--summary", p.summary[1])
            /\ (p.labels # None /\ p.labels # Some(<<>>))
                => Sent(calls[1].args, "--label", "bug")
            /\ p.add_labels # None => Sent(calls[1].args, "--label", "+urgent")
            /\ p.remove_labels # None => Sent(calls[1].args, "--label", "-stale")
            /\ (p.custom_fields # None /\ p.custom_fields # Some(<<>>))
                => Sent(calls[1].args, "--custom", "team=core")

C26_Witness ==
    /\ Done("edit_ticket")
    /\ LastExitedZero
    /\ req.params.assignee = Some("john.doe")
    /\ outcome[1].value.updated_fields
        = <<"summary", "priority", "assignee", "labels", "labels (added)",
            "labels (removed)", "components", "fix_versions", "parent", "custom:team">>

\* Both variables are set to non-empty values.
BothSet(env) ==
    /\ env.JIRA_API_TOKEN \notin {None, Some("")}
    /\ env.JIRA_AUTH_TYPE \notin {None, Some("")}

\* C27: the import of main ends with the tools registered exactly when
\* JIRA_API_TOKEN and JIRA_AUTH_TYPE are both set and non-empty; otherwise it
\* raises ValueError, and then, as during the import, no tool has been invoked,
\* no executor call made, and nothing follows.
C27_RefusesToStart ==
    /\ [](pc \in {"import", "refused"} =>
            /\ req = NoRequest
            /\ calls = <<>>
            /\ toolOut = None
            /\ pc = "refused" =>
                /\ ~BothSet(locals)
                /\ outcome # None
                /\ outcome[1].kind = "raise"
                /\ outcome[1].exc = "ValueError")
    /\ [][/\ pc # "refused"
          /\ pc = "import" => pc' = (IF BothSet(locals) THEN "idle" ELSE "refused")
          /\ pc' \in {"exec", "done"} => pc \in {"idle", "exec"}]_vars

C27_Witness ==
    /\ pc = "refused"
    /\ locals = [JIRA_API_TOKEN |-> Some("token"), JIRA_AUTH_TYPE |-> Some("")]
    /\ outcome[1].kind = "raise"

\* The i-th call of the invocation is the transition command.
IsMove(i) == Len(calls[i].args) >= 2 /\ calls[i].args[1] = "issue" /\ calls[i].args[2] = "move"

\* C28: in move_ticket a status lookup that exits with a non-zero code ends the
\* invocation with ValueError "Failed to get current status for <key>: <stderr>"
\* and one call; the transition command is issued only after a lookup that
\* exited with code 0, and a MoveTicketResult is returned only after a lookup and
\* a transition that both exited with code 0.
C28_NoMoveAfterFailedLookup ==
    req.tool = "move_ticket" =>
        /\ (Len(resps) >= 1 /\ resps[1].kind = "exited" /\ resps[1].returncode # 0) =>
            /\ pc = "done"
            /\ Len(calls) = 1
            /\ ~IsMove(1)
            /\ outcome = Some(Raise("ValueError",
                    "Failed to get current status for " \o req.params.ticket_key \o ": "
                    \o resps[1].stderr))
        /\ \A i \in 1..Len(calls) :
                IsMove(i) => /\ i = 2
                             /\ resps[1] \in {Exited(so, "", 0) :
                                                so \in {"Open\n", "TEST-123\tOpen", "",
                                                        " In Review \n"}}
        /\ (outcome # None /\ outcome[1].kind = "return") =>
            /\ IsMove(2)
            /\ resps[2] = Exited("", "", 0)
            /\ outcome[1].value.success = TRUE

C28_Witness ==
    /\ Done("move_ticket")
    /\ resps = <<Exited("", "Permission denied", 1)>>
    /\ Len(calls) = 1
    /\ outcome[1].kind = "raise"

\* C29: normalize_status applied to its own result gives that result again, and
\* every display name of the table is its own result.
C29_Idempotent ==
    Applied("normalize_status") =>
        LET status == req.params.status
            once == outcome[1].value
        IN  /\ once \in STRING
            /\ normalize_status(once) = once
            /\ normalize_status(normalize_status(status)) = normalize_status(status)
            /\ (\E k \in DOMAIN COMMON_STATUS_MAP : status = COMMON_STATUS_MAP[k])
                => once = status

C29_Witness ==
    /\ Applied("normalize_status")
    /\ req.params.status = "todo"
    /\ outcome = Some(Return("To Do"))
    /\ normalize_status("To Do") = "To Do"

\* Nothing of an invocation is held: no request, local value, call, response or
\* result.
Fresh ==
    /\ req = NoRequest
    /\ invoked = 0
    /\ locals = NoLocals
    /\ calls = <<>>
    /\ resps = <<>>
    /\ outcome = None
    /\ toolOut = None

====
